---------------------------- MODULE Spec2Model ----------------------------
(***************************************************************************)
(* A model of the max-sum library: the index conversions, the             *)
(* DiscreteFunction arithmetic the controller relies on, the               *)
(* DomainIterator, the PostOffice message exchange and the                 *)
(* MaxSumController that drives two PostOffices.                           *)
(***************************************************************************)
EXTENDS Integers, Sequences, FiniteSets, TLC

(***************************************************************************)
(* Bounds of the model.                                                    *)
(***************************************************************************)
\* largest maxIterations a controller is constructed with
MaxIterations == 2
\* number of optimise() calls explored in one behaviour
MaxRuns == 1
\* number of operations made on a DiscreteFunction after it is constructed
MaxOps == 1
\* longest variable->factor notice queue notifyFactor may build up
MaxNotices == 1
\* longest notice queue notify() may build up in a PostOffice used on its own
MaxPending == 2
\* most Messages a PostOffice may hold undeleted when clear() is called
MaxLeaked == 4

(***************************************************************************)
(* Identifiers.  VarID and FactorID are unsigned integers; 0 is a valid    *)
(* identifier.                                                             *)
(***************************************************************************)
VarID == {0, 1}
FactorID == {1, 2}

(***************************************************************************)
(* ValType is double.  Values are modelled as exact rationals n/d in       *)
(* lowest terms; with the domain sizes registered below every value the    *)
(* model computes is a small dyadic rational, which double arithmetic      *)
(* represents and combines exactly.                                        *)
(***************************************************************************)
Abs(x) == IF x < 0 THEN -x ELSE x

RECURSIVE GCD(_, _)
GCD(a, b) == IF b = 0 THEN a ELSE GCD(b, a % b)

Rat(n, d) == IF n = 0 THEN [n |-> 0, d |-> 1]
             ELSE LET g == GCD(Abs(n), d) IN [n |-> n \div g, d |-> d \div g]

ValInt(i) == [n |-> i, d |-> 1]
ValAdd(x, y) == Rat(x.n * y.d + y.n * x.d, x.d * y.d)
ValSub(x, y) == Rat(x.n * y.d - y.n * x.d, x.d * y.d)
ValDiv(x, N) == Rat(x.n, x.d * N)
ValMul(x, y) == Rat(x.n * y.n, x.d * y.d)
\* x / y for a finite quotient, y not zero
ValQuot(x, y) ==
    IF y.n < 0 THEN Rat(-(x.n * y.d), x.d * (-y.n)) ELSE Rat(x.n * y.d, x.d * y.n)
ValLess(x, y) == x.n * y.d < y.n * x.d
ValMax(x, y) == IF ValLess(x, y) THEN y ELSE x
ValMin(x, y) == IF ValLess(y, x) THEN y ELSE x
ValAbs(x) == [n |-> Abs(x.n), d |-> x.d]

(***************************************************************************)
(* Sequences helpers.                                                      *)
(***************************************************************************)
RECURSIVE SortedSeq(_)
SortedSeq(S) == IF S = {} THEN <<>>
                ELSE LET m == CHOOSE x \in S : \A y \in S : x <= y
                     IN <<m>> \o SortedSeq(S \ {m})

Range(s) == {s[k] : k \in 1..Len(s)}

\* std::sort left out: s as it is
sortNot(s) == s

\* std::sort: s in ascending order, repeated elements kept
RECURSIVE sort(_)
sort(s) ==
    IF s = <<>> THEN <<>>
    ELSE LET k == CHOOSE j \in 1..Len(s) : \A i \in 1..Len(s) : s[j] <= s[i]
         IN <<s[k]>> \o sort(SubSeq(s, 1, k - 1) \o SubSeq(s, k + 1, Len(s)))

RECURSIVE Product(_)
Product(siz) == IF siz = <<>> THEN 1 ELSE Head(siz) * Product(Tail(siz))

(***************************************************************************)
(* The variable registry: every variable of the model is registered with   *)
(* domain size 2.                                                          *)
(***************************************************************************)
getDomainSize(var) == 2

(***************************************************************************)
(* Index arithmetic.  Indices start from 0.                                *)
(***************************************************************************)
\* cumulative product of the sizes before dimension k (k from 1)
cumProd(siz, k) == Product(SubSeq(siz, 1, k - 1))

ind2subThrows(siz, ind) == Len(siz) # 0 /\ (ind < 0 \/ ind > Product(siz) - 1)

\* the sub-indices of dimensions 1..k, dividing from the largest dimension down
RECURSIVE ind2subFrom(_, _, _)
ind2subFrom(siz, remainder, k) ==
    IF k = 0 THEN <<>>
    ELSE Append(ind2subFrom(siz, remainder % cumProd(siz, k), k - 1),
                remainder \div cumProd(siz, k))

ind2sub(siz, ind) == ind2subFrom(siz, ind, Len(siz))

MinLen(a, b) == IF Len(a) < Len(b) THEN Len(a) ELSE Len(b)

sub2indThrows(siz, sub) ==
    \E k \in 1..MinLen(siz, sub) : 0 > sub[k] \/ siz[k] <= sub[k]

\* sub2ind that multiplies skipSize by the size before it uses it
RECURSIVE sub2indSkipFirst(_, _, _)
sub2indSkipFirst(siz, sub, k) ==
    IF k > MinLen(siz, sub) THEN 0
    ELSE sub[k] * cumProd(siz, k + 1) + sub2indSkipFirst(siz, sub, k + 1)

RECURSIVE sub2indFrom(_, _, _)
sub2indFrom(siz, sub, k) ==
    IF k > MinLen(siz, sub) THEN 0
    ELSE sub[k] * cumProd(siz, k) + sub2indFrom(siz, sub, k + 1)

sub2ind(siz, sub) == sub2indFrom(siz, sub, 1)

(***************************************************************************)
(* DiscreteFunction: the sorted variable list vars_i, the cache of their   *)
(* sizes size_i and the value array values_i (values_i[k+1] is the value   *)
(* at linear index k).                                                     *)
(***************************************************************************)
\* DiscreteFunction(begin, end, val): variables are sorted, sizes cached
sizesOf(sorted) == [k \in 1..Len(sorted) |-> getDomainSize(sorted[k])]

filled(sorted, siz, val) ==
    [vars_i |-> sorted, size_i |-> siz,
     values_i |-> [k \in 1..Product(siz) |-> val]]

overSorted(sorted, val) == filled(sorted, sizesOf(sorted), val)

DiscreteFunction(vars, val) == overSorted(sort(vars), val)

\* DiscreteFunction(val): a constant that depends on no variable
ConstantFunction(val) == [vars_i |-> <<>>, size_i |-> <<>>, values_i |-> <<val>>]

domainSize(f) == Len(f.values_i)
noVars(f) == Len(f.vars_i)

\* sameDomain that compares the numbers of variables only
sameDomainBySize(f1, f2) == noVars(f1) = noVars(f2)

sameDomain(f1, f2) == noVars(f1) = noVars(f2) /\ f1.vars_i = f2.vars_i

\* the sub-indices of vars/inds that belong to the variables myVars, found
\* by one merge pass over the two sorted lists
RECURSIVE filterIndices(_, _, _, _, _)
filterIndices(myVars, myV, vars, inds, v) ==
    IF v > MinLen(vars, inds) \/ myV > Len(myVars) THEN <<>>
    ELSE IF vars[v] = myVars[myV]
         THEN <<inds[v]>> \o filterIndices(myVars, myV + 1, vars, inds, v + 1)
         ELSE filterIndices(myVars, myV, vars, inds, v + 1)

\* operator()(var, ind) fails with BadDomain when the domain of f is not
\* fully specified by the variable list
atVarsThrows(f, vars, inds) ==
    Len(filterIndices(f.vars_i, 1, vars, inds, 1)) # noVars(f)

\* operator()(var, ind): the value of f at the sub-indices given for vars
atVars(f, vars, inds) ==
    f.values_i[sub2ind(f.size_i, filterIndices(f.vars_i, 1, vars, inds, 1)) + 1]

\* expand(begin, end): the domain becomes the union with the given variables
\* expand that copies the old value array over and over
expandIntoRepeated(f, newVar, result) ==
    [result EXCEPT !.values_i =
        [k \in 1..domainSize(result) |-> f.values_i[((k - 1) % domainSize(f)) + 1]]]

\* result, a function over newVar, filled with the values of f
expandInto(f, newVar, result) ==
    [result EXCEPT !.values_i =
        [k \in 1..domainSize(result) |->
            atVars(f, newVar, ind2sub(result.size_i, k - 1))]]

\* f over the union newVar of its domain and the given variables
expandTo(f, newVar) ==
    IF Len(newVar) <= noVars(f) THEN f
    ELSE expandInto(f, newVar, DiscreteFunction(newVar, ValInt(0)))

expand(f, vars) == expandTo(f, SortedSeq(Range(f.vars_i) \cup Range(vars)))

\* expand fails with BadDomain when the values of f are looked up by the
\* variables newVar and the domain of f is not fully specified by them
expandToThrows(f, newVar) ==
    /\ Len(newVar) > noVars(f)
    /\ atVarsThrows(f, newVar, [k \in 1..Len(newVar) |-> 0])

expandThrows(f, vars) ==
    expandToThrows(f, SortedSeq(Range(f.vars_i) \cup Range(vars)))

\* operator+=(rhs) and operator-=(rhs), op being the scalar operation
ArithExpanded(e, rhs, op(_, _)) ==
    [e EXCEPT !.values_i =
        [k \in 1..domainSize(e) |->
            op(e.values_i[k], atVars(rhs, e.vars_i, ind2sub(e.size_i, k - 1)))]]

ArithAssign(f, rhs, op(_, _)) ==
    IF sameDomain(f, rhs)
    THEN [f EXCEPT !.values_i =
            [k \in 1..domainSize(f) |-> op(f.values_i[k], rhs.values_i[k])]]
    ELSE ArithExpanded(expand(f, rhs.vars_i), rhs, op)

\* the operators fail with BadDomain when expand does, or when rhs is looked
\* up by the variables of the expanded f and they do not specify its domain
ArithThrows(f, rhs) ==
    /\ ~ sameDomain(f, rhs)
    /\ \/ expandThrows(f, rhs.vars_i)
       \/ atVarsThrows(rhs, expand(f, rhs.vars_i).vars_i,
                       [k \in 1..noVars(expand(f, rhs.vars_i)) |-> 0])

\* f once an operator has failed: expanded if expand returned, no value
\* changed
ArithThrown(f, rhs) ==
    IF expandThrows(f, rhs.vars_i) THEN f ELSE expand(f, rhs.vars_i)

PlusAssign(f, rhs) == ArithAssign(f, rhs, ValAdd)
MinusAssign(f, rhs) == ArithAssign(f, rhs, ValSub)
TimesAssign(f, rhs) == ArithAssign(f, rhs, ValMul)
DivideAssign(f, rhs) == ArithAssign(f, rhs, ValQuot)

\* operator-=(ValType): subtracts a scalar from every value
MinusAssignScalar(f, val) ==
    [f EXCEPT !.values_i = [k \in 1..domainSize(f) |-> ValSub(f.values_i[k], val)]]

\* fold of op over s[1..k], seeded with s[1]
RECURSIVE FoldSeq(_, _, _)
FoldSeq(op(_, _), s, k) ==
    IF k = 1 THEN s[1] ELSE op(FoldSeq(op, s, k - 1), s[k])

\* marginal(): outFun's domain must be a subset of inFun's
marginalThrows(inFun, outFun) == ~ (Range(outFun.vars_i) \subseteq Range(inFun.vars_i))

\* the linear indices of inFun consistent with position outInd of outFun,
\* in the order the conditioned iterator visits them (ascending)
RECURSIVE consistentFrom(_, _, _, _)
consistentFrom(inFun, outFun, outSub, inInd) ==
    IF inInd >= domainSize(inFun) THEN <<>>
    ELSE (IF filterIndices(outFun.vars_i, 1, inFun.vars_i,
                           ind2sub(inFun.size_i, inInd), 1) = outSub
          THEN <<inInd>> ELSE <<>>)
         \o consistentFrom(inFun, outFun, outSub, inInd + 1)

consistent(inFun, outFun, outInd) ==
    consistentFrom(inFun, outFun, ind2sub(outFun.size_i, outInd), 0)

\* marginal(inFun, aggregate, outFun): the first matching value seeds the fold
FoldAll(op(_, _), s) == FoldSeq(op, s, Len(s))

\* the values aggregated when the first matching value does not seed the fold
valuesAtButFirst(inFun, pos) ==
    IF Len(pos) > 1
    THEN [j \in 1..(Len(pos) - 1) |-> inFun.values_i[pos[j + 1] + 1]]
    ELSE [j \in 1..Len(pos) |-> inFun.values_i[pos[j] + 1]]

\* the values of inFun at the linear indices pos, in that order
valuesAt(inFun, pos) == [j \in 1..Len(pos) |-> inFun.values_i[pos[j] + 1]]

marginal(inFun, aggregate(_, _), outFun) ==
    [outFun EXCEPT !.values_i =
        [k \in 1..domainSize(outFun) |->
            FoldAll(aggregate, valuesAt(inFun, consistent(inFun, outFun, k - 1)))]]

\* the marginal that adds where maxMarginal takes the maximum
sumMarginal(inFun, outFun) == marginal(inFun, ValAdd, outFun)

maxMarginal(inFun, outFun) == marginal(inFun, ValMax, outFun)

minMarginal(inFun, outFun) == marginal(inFun, ValMin, outFun)

\* the linear index of the last maximal value
argmaxLast(f) ==
    CHOOSE row \in 0..(domainSize(f) - 1) :
        /\ \A k \in 0..(domainSize(f) - 1) : ~ ValLess(f.values_i[row + 1], f.values_i[k + 1])
        /\ \A k \in (row + 1)..(domainSize(f) - 1) : ValLess(f.values_i[k + 1], f.values_i[row + 1])

\* argmax(): the linear index of the first maximal value
argmax(f) ==
    CHOOSE row \in 0..(domainSize(f) - 1) :
        /\ \A k \in 0..(domainSize(f) - 1) : ~ ValLess(f.values_i[row + 1], f.values_i[k + 1])
        /\ \A k \in 0..(row - 1) : ValLess(f.values_i[k + 1], f.values_i[row + 1])

\* maxnorm(): the largest absolute value
RECURSIVE maxnormFrom(_, _, _)
maxnormFrom(f, k, result) ==
    IF k > domainSize(f) THEN result
    ELSE LET absVal == ValAbs(f.values_i[k])
         IN maxnormFrom(f, k + 1, IF ValLess(result, absVal) THEN absVal ELSE result)

maxnorm(f) == maxnormFrom(f, 1, ValInt(0))

\* mean(): the sum of values_i[k] / N
RECURSIVE meanFrom(_, _, _)
meanFrom(f, k, result) ==
    IF k > domainSize(f) THEN result
    ELSE meanFrom(f, k + 1, ValAdd(result, ValDiv(f.values_i[k], domainSize(f))))

mean(f) == meanFrom(f, 1, ValInt(0))

(***************************************************************************)
(* std::map: a function whose DOMAIN is the set of keys.                   *)
(***************************************************************************)
EmptyMap == << >>

\* m[k] = v
MapPut(m, k, v) == [x \in (DOMAIN m) \cup {k} |-> IF x = k THEN v ELSE m[x]]

\* m.erase(k)
MapErase(m, k) == [x \in (DOMAIN m) \ {k} |-> m[x]]

\* std::map::operator[] used for its side effect: a missing key is inserted
\* with the default value
MapTouch(m, k, dflt) == IF k \in DOMAIN m THEN m ELSE MapPut(m, k, dflt)

\* the null Message pointer
NULL == 0

(***************************************************************************)
(* PostOffice<Sender,Receiver,Message>.  The four maps hold Message        *)
(* pointers; heap maps the address of every Message created with new and  *)
(* not deleted to its value, as long as one of the maps refers to it;      *)
(* leaked counts the Messages created with new and not deleted that no map *)
(* refers to any more.                                                     *)
(***************************************************************************)
PostOffice ==
    [curOutboxes_i |-> EmptyMap, prevOutboxes_i |-> EmptyMap,
     curInboxes_i |-> EmptyMap, prevInboxes_i |-> EmptyMap,
     notices_i |-> << >>, heap |-> EmptyMap, leaked |-> 0]

\* new Message(msgVal): an address not in use, holding a copy of msgVal
newAddress(heap) ==
    CHOOSE p \in 1..(Cardinality(DOMAIN heap) + 1) :
        p \notin DOMAIN heap /\ \A q \in 1..(p - 1) : q \in DOMAIN heap

\* boxes[a][b] = ptr, inserting a and b when missing
setPtr(boxes, a, b, ptr) ==
    [MapTouch(boxes, a, EmptyMap) EXCEPT ![a] = MapPut(@, b, ptr)]

\* boxes[a][b], inserting a and b (with a null pointer) when missing
touchPtr(boxes, a, b) ==
    [MapTouch(boxes, a, EmptyMap) EXCEPT ![a] = MapTouch(@, b, NULL)]

\* the new edge from s to r with its two Messages at pCur and pPrev
linkEdge(po, s, r, msgVal, pCur, pPrev) ==
    [po EXCEPT !.curOutboxes_i = setPtr(@, s, r, pCur),
               !.prevOutboxes_i = setPtr(@, s, r, pPrev),
               !.curInboxes_i = setPtr(@, r, s, pCur),
               !.prevInboxes_i = setPtr(@, r, s, pPrev),
               !.heap = MapPut(MapPut(@, pCur, msgVal), pPrev, msgVal)]

\* the two allocations of addEdge, the second after the first
newEdge(po, s, r, msgVal, pCur) ==
    linkEdge(po, s, r, msgVal, pCur, newAddress(MapPut(po.heap, pCur, msgVal)))

\* addEdge that creates the two Messages even when the edge exists
addEdgeAlways(po, s, r, msgVal) == newEdge(po, s, r, msgVal, newAddress(po.heap))

addEdge(po, s, r, msgVal) ==
    IF touchPtr(po.curOutboxes_i, s, r)[s][r] # NULL
    THEN po
    ELSE newEdge(po, s, r, msgVal, newAddress(po.heap))

\* boxes[a].erase(b), inserting a when missing
erasePtr(boxes, a, b) ==
    [MapTouch(boxes, a, EmptyMap) EXCEPT ![a] = MapErase(@, b)]

\* removeEdge that keeps a sender or receiver whose box became empty
eraseNever(boxes, a) == MapTouch(boxes, a, EmptyMap)

\* if(boxes[a].empty()) boxes.erase(a), inserting a when missing
eraseIfEmpty(boxes, a) ==
    IF a \notin DOMAIN boxes THEN boxes
    ELSE IF DOMAIN boxes[a] = {} THEN MapErase(boxes, a) ELSE boxes

removeEdge(po, s, r) ==
    IF s \notin DOMAIN po.curOutboxes_i THEN po
    ELSE IF r \notin DOMAIN po.curOutboxes_i[s] THEN po
    ELSE [po EXCEPT
            !.curOutboxes_i = eraseIfEmpty(erasePtr(@, s, r), s),
            !.prevOutboxes_i = erasePtr(@, s, r),
            !.curInboxes_i = eraseIfEmpty(erasePtr(@, r, s), r),
            !.prevInboxes_i = erasePtr(@, r, s),
            !.heap = MapErase(MapErase(@, po.curOutboxes_i[s][r]),
                              MapTouch(po.prevOutboxes_i, s, EmptyMap)[s][r])]

\* swapOutBoxes with the inboxes of the receivers left as they are
swapInboxesUnswapped(curIn, prevIn, s, rs) == [cur |-> curIn, prev |-> prevIn]

\* the loop of swapOutBoxes over the receivers rs (in key order): the current
\* and previous inbox pointers of every receiver related to s are exchanged
RECURSIVE swapInboxes(_, _, _, _)
swapInboxes(curIn, prevIn, s, rs) ==
    IF rs = << >> THEN [cur |-> curIn, prev |-> prevIn]
    ELSE IF s \notin DOMAIN curIn[Head(rs)]
         THEN swapInboxes(curIn, prevIn, s, Tail(rs))
         ELSE swapInboxes(
                [curIn EXCEPT ![Head(rs)][s] = touchPtr(prevIn, Head(rs), s)[Head(rs)][s]],
                [touchPtr(prevIn, Head(rs), s) EXCEPT ![Head(rs)][s] = curIn[Head(rs)][s]],
                s, Tail(rs))

\* swapOutBoxes with the outboxes of s left as they are
swappedInboxesOnly(po, s, inboxes) ==
    [po EXCEPT !.prevOutboxes_i = MapTouch(@, s, EmptyMap),
               !.curInboxes_i = inboxes.cur,
               !.prevInboxes_i = inboxes.prev]

\* po with the outboxes of s exchanged and the inboxes as swapped by the loop
swapped(po, s, inboxes) ==
    [po EXCEPT !.curOutboxes_i = [@ EXCEPT ![s] = MapTouch(po.prevOutboxes_i, s, EmptyMap)[s]],
               !.prevOutboxes_i = [MapTouch(@, s, EmptyMap) EXCEPT ![s] = po.curOutboxes_i[s]],
               !.curInboxes_i = inboxes.cur,
               !.prevInboxes_i = inboxes.prev]

swapOutBoxes(po, s) ==
    IF s \notin DOMAIN po.curOutboxes_i THEN po
    ELSE swapped(po, s, swapInboxes(po.curInboxes_i, po.prevInboxes_i, s,
                                    SortedSeq(DOMAIN po.curInboxes_i)))

\* clear(): the maps and the notice queue are emptied; no Message is deleted
clear(po) ==
    [po EXCEPT !.curOutboxes_i = EmptyMap, !.prevOutboxes_i = EmptyMap,
               !.curInboxes_i = EmptyMap, !.prevInboxes_i = EmptyMap,
               !.notices_i = << >>]

newMail(po) == po.notices_i # << >>
notify(po, r) == [po EXCEPT !.notices_i = Append(@, r)]
\* notifyAll that leaves the pending notices in the queue
notifyAllKeepPending(po) ==
    [po EXCEPT !.notices_i = @ \o SortedSeq(DOMAIN po.curInboxes_i)]
notifyAll(po) == [po EXCEPT !.notices_i = SortedSeq(DOMAIN po.curInboxes_i)]
noticeCount(po) == Len(po.notices_i)
popNoticeThrows(po) == po.notices_i = << >>
\* notices_i.front(), the value popNotice() returns
front(po) == Head(po.notices_i)
\* popNotice that takes the newest notice off the queue
popNoticeNewest(po) == [po EXCEPT !.notices_i = SubSeq(@, 1, Len(@) - 1)]
popNotice(po) == [po EXCEPT !.notices_i = Tail(@)]

\* the receivers a caller gets who pops notices while there is new mail
RECURSIVE popAll(_)
popAll(po) ==
    IF ~ newMail(po) THEN << >>
    ELSE <<front(po)>> \o popAll(popNotice(po))
hasSender(po, id) == id \in DOMAIN po.curOutboxes_i
hasReceiver(po, id) == id \in DOMAIN po.curInboxes_i
hasEdge(po, s, r) ==
    IF s \notin DOMAIN po.curOutboxes_i THEN FALSE
    ELSE IF r \notin DOMAIN po.curOutboxes_i[s] THEN FALSE
    ELSE TRUE

\* the sum of the sizes of the current outboxes of the senders ss
RECURSIVE edgeCount(_, _)
edgeCount(po, ss) ==
    IF ss = << >> THEN 0
    ELSE Cardinality(DOMAIN po.curOutboxes_i[Head(ss)]) + edgeCount(po, Tail(ss))

numOfEdges(po) == edgeCount(po, SortedSeq(DOMAIN po.curOutboxes_i))
numOfSenders(po) == Cardinality(DOMAIN po.curOutboxes_i)
numOfReceivers(po) == Cardinality(DOMAIN po.curInboxes_i)

curOutMsgsThrows(po, s) == s \notin DOMAIN po.curOutboxes_i
prevOutMsgsThrows(po, s) == s \notin DOMAIN po.prevOutboxes_i
curInMsgsThrows(po, r) == r \notin DOMAIN po.curInboxes_i
prevInMsgsThrows(po, r) == r \notin DOMAIN po.prevInboxes_i

(***************************************************************************)
(* The address new returns is arbitrary and a Message that no map refers   *)
(* to can no longer be reached.  States are therefore kept with canonical  *)
(* addresses: the Messages are numbered in the order in which the maps     *)
(* refer to them (current outboxes, previous outboxes, current inboxes,    *)
(* previous inboxes, each in key order), and the unreachable Messages are  *)
(* counted in leaked instead of being kept in heap.                        *)
(***************************************************************************)
\* the pointers held by boxes[a], in key order
RECURSIVE boxPtrs(_, _)
boxPtrs(box, ks) ==
    IF ks = << >> THEN << >> ELSE <<box[Head(ks)]>> \o boxPtrs(box, Tail(ks))

\* the pointers held by boxes, in key order
RECURSIVE boxesPtrs(_, _)
boxesPtrs(boxes, ks) ==
    IF ks = << >> THEN << >>
    ELSE boxPtrs(boxes[Head(ks)], SortedSeq(DOMAIN boxes[Head(ks)]))
         \o boxesPtrs(boxes, Tail(ks))

\* s without the null pointers and without repetitions, first occurrences kept
RECURSIVE firstRefs(_, _)
firstRefs(s, seen) ==
    IF s = << >> THEN << >>
    ELSE IF Head(s) = NULL \/ Head(s) \in seen THEN firstRefs(Tail(s), seen)
         ELSE <<Head(s)>> \o firstRefs(Tail(s), seen \cup {Head(s)})

\* the pointers held by the four maps, in the order of the numbering
allPtrs(po) ==
    boxesPtrs(po.curOutboxes_i, SortedSeq(DOMAIN po.curOutboxes_i))
    \o boxesPtrs(po.prevOutboxes_i, SortedSeq(DOMAIN po.prevOutboxes_i))
    \o boxesPtrs(po.curInboxes_i, SortedSeq(DOMAIN po.curInboxes_i))
    \o boxesPtrs(po.prevInboxes_i, SortedSeq(DOMAIN po.prevInboxes_i))

\* the canonical address of the Message at p
rename(refs, p) ==
    IF p = NULL THEN NULL ELSE CHOOSE k \in 1..Len(refs) : refs[k] = p

renamed(boxes, refs) ==
    [a \in DOMAIN boxes |-> [b \in DOMAIN boxes[a] |-> rename(refs, boxes[a][b])]]

\* po with the Message at refs[k] moved to address k
canonicalWith(po, refs) ==
    [curOutboxes_i |-> renamed(po.curOutboxes_i, refs),
     prevOutboxes_i |-> renamed(po.prevOutboxes_i, refs),
     curInboxes_i |-> renamed(po.curInboxes_i, refs),
     prevInboxes_i |-> renamed(po.prevInboxes_i, refs),
     notices_i |-> po.notices_i,
     heap |-> [k \in {j \in 1..Len(refs) : refs[j] \in DOMAIN po.heap}
                  |-> po.heap[refs[k]]],
     leaked |-> po.leaked + Cardinality((DOMAIN po.heap) \ Range(refs))]

canonical(po) == canonicalWith(po, firstRefs(allPtrs(po), {}))

(***************************************************************************)
(* MaxSumController.                                                       *)
(***************************************************************************)
\* maxNormThreshold_i is DEFAULT_MAXNORM_THRESHOLD = 1 / ThresholdDen
ThresholdDen == 10000000

\* x > maxNormThreshold_i, for x >= 0
aboveThreshold(x) == x.n > 0 /\ (x.d \div x.n) < ThresholdDen

\* a freshly constructed controller
MaxSumController ==
    [factors_i |-> EmptyMap, actions_i |-> EmptyMap,
     fac2varMsgs_i |-> PostOffice, var2facMsgs_i |-> PostOffice]

\* setFactor that removes no edge of the old domain
toRemoveNothing(oldValue, factor) == << >>

\* the vector toRemove of setFactor: as long as the old domain, filled with
\* zeros, the set difference old \ new written at its start
toRemove(oldValue, factor) ==
    LET diff == SortedSeq(Range(oldValue.vars_i) \ Range(factor.vars_i))
    IN [k \in 1..noVars(oldValue) |-> IF k <= Len(diff) THEN diff[k] ELSE 0]

\* the edge-removing loop without the erasure from the action list
RECURSIVE removeEdgesKeepActions(_, _, _)
removeEdgesKeepActions(c, id, vs) ==
    IF vs = << >> THEN c
    ELSE removeEdgesKeepActions(
             [c EXCEPT !.fac2varMsgs_i = removeEdge(@, id, Head(vs)),
                       !.var2facMsgs_i = removeEdge(@, Head(vs), id)],
             id, Tail(vs))

\* the edge from factor id to variable var removed, the edge back left
unlinkOneWay(c, id, var) ==
    [c EXCEPT !.fac2varMsgs_i = removeEdge(@, id, var)]

\* the edges between factor id and variable var removed from both PostOffices
unlink(c, id, var) ==
    [c EXCEPT !.fac2varMsgs_i = removeEdge(@, id, var),
              !.var2facMsgs_i = removeEdge(@, var, id)]

\* the entry of var in actions_i erased whether or not var still sends
eraseAnyAction(c, var) == [c EXCEPT !.actions_i = MapErase(@, var)]

\* a variable that no longer sends to any factor loses its entry in actions_i
eraseLoneAction(c, var) ==
    IF ~ hasSender(c.var2facMsgs_i, var)
    THEN [c EXCEPT !.actions_i = MapErase(@, var)]
    ELSE c

\* the edge-removing loop of setFactor and removeFactor over the variables vs
RECURSIVE removeEdges(_, _, _)
removeEdges(c, id, vs) ==
    IF vs = << >> THEN c
    ELSE removeEdges(eraseLoneAction(unlink(c, id, Head(vs)), Head(vs)),
                     id, Tail(vs))

\* the edges between factor id and variable var added to both PostOffices
\* with msgTemplate as their messages, and var given an entry in actions_i
link(c, id, var, msgTemplate) ==
    [c EXCEPT !.fac2varMsgs_i = addEdge(@, id, var, msgTemplate),
              !.var2facMsgs_i = addEdge(@, var, id, msgTemplate),
              !.actions_i = MapTouch(@, var, 0)]

\* the edge-adding loop of setFactor over the variables vs
RECURSIVE addEdges(_, _, _)
addEdges(c, id, vs) ==
    IF vs = << >> THEN c
    ELSE addEdges(link(c, id, Head(vs), DiscreteFunction(<<Head(vs)>>, ValInt(0))),
                  id, Tail(vs))

\* only the factors are told to recheck their mail
resyncFactorsOnly(c) == [c EXCEPT !.var2facMsgs_i = notifyAll(@)]

\* both PostOffices tell all their receivers to recheck their mail
resync(c) == [c EXCEPT !.var2facMsgs_i = notifyAll(@), !.fac2varMsgs_i = notifyAll(@)]

\* factors_i[id] = factor
storeFactor(c, id, factor) == [c EXCEPT !.factors_i = MapPut(@, id, factor)]

\* setFactor once factors_i[id] has been looked up (c0 holds the entry)
setFactorOver(c0, id, factor) ==
    resync(storeFactor(
        addEdges(removeEdges(c0, id, toRemove(c0.factors_i[id], factor)),
                 id, factor.vars_i),
        id, factor))

setFactor(c, id, factor) ==
    setFactorOver([c EXCEPT !.factors_i = MapTouch(@, id, ConstantFunction(ValInt(0)))],
                  id, factor)

\* factors_i.erase(id)
eraseFactor(c, id) == [c EXCEPT !.factors_i = MapErase(@, id)]

removeFactor(c, id) ==
    IF id \notin DOMAIN c.factors_i THEN c
    ELSE resync(eraseFactor(removeEdges(c, id, c.factors_i[id].vars_i), id))

\* clear() that leaves the variable assignments in place
clearKeepActions(c) ==
    [c EXCEPT !.factors_i = EmptyMap,
              !.fac2varMsgs_i = clear(@), !.var2facMsgs_i = clear(@)]

clearController(c) ==
    [c EXCEPT !.factors_i = EmptyMap, !.actions_i = EmptyMap,
              !.fac2varMsgs_i = clear(@), !.var2facMsgs_i = clear(@)]

notifyFactor(c, id) == [c EXCEPT !.var2facMsgs_i = notify(@, id)]

\* the controller with the addresses of both PostOffices made canonical
canonicalController(c) ==
    [c EXCEPT !.fac2varMsgs_i = canonical(@), !.var2facMsgs_i = canonical(@)]

hasFactor(c, id) == id \in DOMAIN c.factors_i
hasEdgeController(c, id, var) == hasEdge(c.var2facMsgs_i, var, id)
hasValue(c, id) == id \in DOMAIN c.actions_i

\* the sum of start and the messages the pointers of msgs refer to, added in
\* the key order ks
RECURSIVE sumMsgs(_, _, _, _)
sumMsgs(start, heap, msgs, ks) ==
    IF ks = << >> THEN start
    ELSE sumMsgs(PlusAssign(start, heap[msgs[Head(ks)]]), heap, msgs, Tail(ks))

\* *p = msg
storeMsg(po, p, msg) == [po EXCEPT !.heap[p] = msg]

\* msgDiff.maxnorm() > maxNormThreshold_i, for msgDiff = curOutMsg - prevOutMsg
changed(curOutMsg, prevOutMsg) ==
    aboveThreshold(maxnorm(MinusAssign(curOutMsg, prevOutMsg)))

\* the receiver r is notified when curOutMsg differs by more than the
\* threshold from the Message it overwrites
sendAgainstOverwritten(po, r, pCurOutMsg, pPrevOutMsg, curOutMsg) ==
    IF changed(curOutMsg, po.heap[pCurOutMsg])
    THEN notify(storeMsg(po, pCurOutMsg, curOutMsg), r)
    ELSE storeMsg(po, pCurOutMsg, curOutMsg)

\* curOutMsg is written to *pCurOutMsg; the receiver r is notified when it
\* differs from *pPrevOutMsg (read after the write) by more than the threshold
send(po, r, pCurOutMsg, pPrevOutMsg, curOutMsg) ==
    IF changed(curOutMsg, storeMsg(po, pCurOutMsg, curOutMsg).heap[pPrevOutMsg])
    THEN notify(storeMsg(po, pCurOutMsg, curOutMsg), r)
    ELSE storeMsg(po, pCurOutMsg, curOutMsg)

\* the body of the loop of updateFac2VarMsgs: the message of fac to var
fac2varSend(f2v, v2f, fac, var, msgSum) ==
    send(f2v, var, f2v.curOutboxes_i[fac][var], f2v.prevOutboxes_i[fac][var],
         maxMarginal(MinusAssign(msgSum, v2f.heap[v2f.curInboxes_i[fac][var]]),
                     f2v.heap[f2v.curOutboxes_i[fac][var]]))

\* the loop of updateFac2VarMsgs over the neighbours vs of factor fac
RECURSIVE fac2varLoop(_, _, _, _)
fac2varLoop(c, fac, msgSum, vs) ==
    IF vs = << >> THEN c
    ELSE fac2varLoop(
             [c EXCEPT !.fac2varMsgs_i =
                 fac2varSend(@, c.var2facMsgs_i, fac, Head(vs), msgSum)],
             fac, msgSum, Tail(vs))

\* the round of factor fac once its notice is popped, its outboxes are swapped
\* and factors_i[fac] is looked up; threw tells whether one of the PostOffice
\* lookups failed with UnknownAddressException
fac2varRoundFor(c1, fac) ==
    IF curInMsgsThrows(c1.var2facMsgs_i, fac)
       \/ curOutMsgsThrows(c1.fac2varMsgs_i, fac)
       \/ prevOutMsgsThrows(c1.fac2varMsgs_i, fac)
    THEN [c |-> c1, threw |-> TRUE]
    ELSE [c |-> fac2varLoop(
                    c1, fac,
                    sumMsgs(c1.factors_i[fac], c1.var2facMsgs_i.heap,
                            c1.var2facMsgs_i.curInboxes_i[fac],
                            SortedSeq(DOMAIN c1.var2facMsgs_i.curInboxes_i[fac])),
                    SortedSeq(DOMAIN c1.fac2varMsgs_i.curOutboxes_i[fac])),
          threw |-> FALSE]

\* one round of the while loop of updateFac2VarMsgs: the next notified factor
\* is popped and its outgoing messages are updated
fac2varRound(c) ==
    fac2varRoundFor(
        [c EXCEPT !.var2facMsgs_i = popNotice(@),
                  !.fac2varMsgs_i = swapOutBoxes(@, Head(c.var2facMsgs_i.notices_i)),
                  !.factors_i = MapTouch(@, Head(c.var2facMsgs_i.notices_i),
                                         ConstantFunction(ValInt(0)))],
        Head(c.var2facMsgs_i.notices_i))

\* f with its mean subtracted
normalise(f) == MinusAssignScalar(f, mean(f))

\* the body of the loop of updateVar2FacMsgs: the message of var to fac
var2facSend(v2f, f2v, var, fac, msgSum) ==
    send(v2f, fac, v2f.curOutboxes_i[var][fac], v2f.prevOutboxes_i[var][fac],
         normalise(MinusAssign(msgSum, f2v.heap[f2v.curInboxes_i[var][fac]])))

\* the loop of updateVar2FacMsgs over the neighbours fs of variable var
RECURSIVE var2facLoop(_, _, _, _)
var2facLoop(c, var, msgSum, fs) ==
    IF fs = << >> THEN c
    ELSE var2facLoop(
             [c EXCEPT !.var2facMsgs_i =
                 var2facSend(@, c.fac2varMsgs_i, var, Head(fs), msgSum)],
             var, msgSum, Tail(fs))

\* actions_i[var] = bestAction; when that changes the assignment, all factors
\* are told to recheck their mail
setAction(c, var, bestAction) ==
    IF bestAction # MapTouch(c.actions_i, var, 0)[var]
    THEN [c EXCEPT !.actions_i = MapPut(@, var, bestAction),
                   !.var2facMsgs_i = notifyAll(@)]
    ELSE [c EXCEPT !.actions_i = MapTouch(@, var, 0)]

\* the messages of var are sent and its best action is stored
var2facUpdate(c1, var, msgSum) ==
    setAction(var2facLoop(c1, var, msgSum,
                          SortedSeq(DOMAIN c1.var2facMsgs_i.curOutboxes_i[var])),
              var, argmax(msgSum))

\* the round of variable var once its notice is popped and its outboxes are
\* swapped
var2facRoundFor(c1, var) ==
    IF curInMsgsThrows(c1.fac2varMsgs_i, var)
       \/ curOutMsgsThrows(c1.var2facMsgs_i, var)
       \/ prevOutMsgsThrows(c1.var2facMsgs_i, var)
    THEN [c |-> c1, threw |-> TRUE]
    ELSE [c |-> var2facUpdate(
                    c1, var,
                    sumMsgs(DiscreteFunction(<<var>>, ValInt(0)),
                            c1.fac2varMsgs_i.heap,
                            c1.fac2varMsgs_i.curInboxes_i[var],
                            SortedSeq(DOMAIN c1.fac2varMsgs_i.curInboxes_i[var]))),
          threw |-> FALSE]

\* one round of the while loop of updateVar2FacMsgs
var2facRound(c) ==
    var2facRoundFor(
        [c EXCEPT !.fac2varMsgs_i = popNotice(@),
                  !.var2facMsgs_i = swapOutBoxes(@, Head(c.fac2varMsgs_i.notices_i))],
        Head(c.fac2varMsgs_i.notices_i))

\* updateFac2VarMsgs(): rounds while the variable->factor PostOffice has new
\* mail; count is the returned notice count of the factor->variable PostOffice
RECURSIVE updateFac2VarMsgs(_)
RECURSIVE afterFac2varRound(_)
afterFac2varRound(round) ==
    IF round.threw THEN [c |-> round.c, threw |-> TRUE, count |-> 0]
    ELSE updateFac2VarMsgs(round.c)

updateFac2VarMsgs(c) ==
    IF ~ newMail(c.var2facMsgs_i)
    THEN [c |-> c, threw |-> FALSE, count |-> noticeCount(c.fac2varMsgs_i)]
    ELSE afterFac2varRound(fac2varRound(c))

\* updateVar2FacMsgs(): rounds while the factor->variable PostOffice has new
\* mail; count is the returned notice count of the variable->factor PostOffice
RECURSIVE updateVar2FacMsgs(_)
RECURSIVE afterVar2facRound(_)
afterVar2facRound(round) ==
    IF round.threw THEN [c |-> round.c, threw |-> TRUE, count |-> 0]
    ELSE updateVar2FacMsgs(round.c)

updateVar2FacMsgs(c) ==
    IF ~ newMail(c.fac2varMsgs_i)
    THEN [c |-> c, threw |-> FALSE, count |-> noticeCount(c.var2facMsgs_i)]
    ELSE afterVar2facRound(var2facRound(c))

(***************************************************************************)
(* The factors handed to setFactor.                                        *)
(***************************************************************************)
\* a function over vars with the given values (numerators over den)
Function(vars, nums, den) ==
    [DiscreteFunction(vars, ValInt(0)) EXCEPT
        !.values_i = [k \in 1..Len(nums) |-> Rat(nums[k], den)]]

\* the graph colouring utility of genColourUtil_m over variables 0 and 1:
\* a small bias (bias[k] / 16) minus the number of conflicts
ColourUtil(bias) ==
    Function(<<0, 1>>, <<bias[1] - 16, bias[2], bias[3], bias[4] - 16>>, 16)

\* the assignments of four distinct biases to the four positions
Biases == {b \in [1..4 -> 0..3] : \A i, j \in 1..4 : i # j => b[i] # b[j]}

Factors ==
    {ConstantFunction(ValInt(1)),
     Function(<<0>>, <<1, 2>>, 1),
     Function(<<0>>, <<0, 0>>, 1),
     Function(<<1>>, <<2, 0>>, 1),
     ColourUtil(<<3, 2, 1, 0>>)}

(***************************************************************************)
(* The messages of a PostOffice used on its own.                           *)
(***************************************************************************)
\* Message(), the message addEdge stores when it is given none
DefaultMessage == 0

\* the messages written into outboxes
Messages == {1, 2}

\* *(curOutMsgs(s)[r]) = msgVal: a write through the current outbox of s
writeCurOut(po, s, r, msgVal) ==
    [po EXCEPT !.heap[po.curOutboxes_i[s][r]] = msgVal]

\* the messages of edge (s, r), read through the four maps
curOutMsg(po, s, r) == po.heap[po.curOutboxes_i[s][r]]
prevOutMsg(po, s, r) == po.heap[po.prevOutboxes_i[s][r]]
curInMsg(po, r, s) == po.heap[po.curInboxes_i[r][s]]
prevInMsg(po, r, s) == po.heap[po.prevInboxes_i[r][s]]

(***************************************************************************)
(* DomainIterator: the sorted variable list vars_i, the current            *)
(* sub-indices subInd_i, the linear index ind_i, the flags fixed_i of the  *)
(* conditioned variables, the cache of sizes sizes_i and finished_i.       *)
(***************************************************************************)
\* DomainIterator(begin, end); the empty list gives what the default
\* constructor gives
DomainIterator(vars) ==
    [vars_i |-> sort(vars),
     subInd_i |-> [k \in 1..Len(vars) |-> 0],
     ind_i |-> 0,
     fixed_i |-> [k \in 1..Len(vars) |-> FALSE],
     sizes_i |-> sizesOf(sort(vars)),
     finished_i |-> FALSE]

\* validateRange() that never throws
validateRangeNever(it) == FALSE

\* validateRange() throws OutOfRangeException
validateRangeThrows(it) == it.finished_i

\* std::find(vars_i.begin(), vars_i.end(), var) - vars_i.begin(), from 1
positionOf(it, var) ==
    CHOOSE position \in 1..Len(it.vars_i) :
        /\ it.vars_i[position] = var
        /\ \A before \in 1..(position - 1) : it.vars_i[before] # var

\* ind_i = sub2ind(sizes_i, subInd_i)
setInd(it) == [it EXCEPT !.ind_i = sub2ind(it.sizes_i, it.subInd_i)]

\* the loop of operator++ without the test of fixed_i
RECURSIVE incrementEvery(_, _)
incrementEvery(it, k) ==
    IF k > Len(it.vars_i) THEN it
    ELSE IF (it.subInd_i[k] + 1) % it.sizes_i[k] > 0
         THEN [it EXCEPT !.subInd_i[k] = (@ + 1) % it.sizes_i[k],
                         !.finished_i = FALSE]
         ELSE incrementEvery([it EXCEPT !.subInd_i[k] = (@ + 1) % it.sizes_i[k]],
                             k + 1)

\* the loop of operator++ from variable k on: the first free variable that
\* does not wrap ends the loop with finished_i = false
RECURSIVE incrementFrom(_, _)
incrementFrom(it, k) ==
    IF k > Len(it.vars_i) THEN it
    ELSE IF it.fixed_i[k] THEN incrementFrom(it, k + 1)
    ELSE IF (it.subInd_i[k] + 1) % it.sizes_i[k] > 0
         THEN [it EXCEPT !.subInd_i[k] = (@ + 1) % it.sizes_i[k],
                         !.finished_i = FALSE]
         ELSE incrementFrom([it EXCEPT !.subInd_i[k] = (@ + 1) % it.sizes_i[k]],
                            k + 1)

\* operator++()
increment(it) == setInd(incrementFrom([it EXCEPT !.finished_i = TRUE], 1))

\* the first loop of condition(varBegin, varEnd, indBegin, indEnd) from the
\* k-th argument on: a variable of the domain is fixed at its value
RECURSIVE conditionFrom(_, _, _, _)
conditionFrom(it, vars, inds, k) ==
    IF k > MinLen(vars, inds) THEN it
    ELSE IF vars[k] \in Range(it.vars_i)
         THEN conditionFrom(
                  [it EXCEPT !.fixed_i[positionOf(it, vars[k])] = TRUE,
                             !.subInd_i[positionOf(it, vars[k])] = inds[k]],
                  vars, inds, k + 1)
         ELSE conditionFrom(it, vars, inds, k + 1)

\* the second loop of condition without finished_i = false
resetFreeOnly(it) ==
    [it EXCEPT !.subInd_i = [k \in 1..Len(it.vars_i) |->
                                IF it.fixed_i[k] THEN it.subInd_i[k] ELSE 0]]

\* the second loop of condition and finished_i = false
resetFree(it) ==
    [it EXCEPT !.subInd_i = [k \in 1..Len(it.vars_i) |->
                                IF it.fixed_i[k] THEN it.subInd_i[k] ELSE 0],
               !.finished_i = FALSE]

condition(it, vars, inds) == setInd(resetFree(conditionFrom(it, vars, inds, 1)))

\* DomainIterator(fun): the variables and the sizes of fun are copied
iteratorOver(fun) ==
    [vars_i |-> fun.vars_i,
     subInd_i |-> [k \in 1..noVars(fun) |-> 0],
     ind_i |-> 0,
     fixed_i |-> [k \in 1..noVars(fun) |-> FALSE],
     sizes_i |-> fun.size_i,
     finished_i |-> FALSE]

fixedCount(it) == Cardinality({k \in 1..Len(it.fixed_i) : it.fixed_i[k]})

isFixed(it, var) ==
    IF var \notin Range(it.vars_i) THEN FALSE ELSE it.fixed_i[positionOf(it, var)]

\* the variables of fun that it leaves free, in the order of fun
RECURSIVE freeVars(_, _, _)
freeVars(fun, it, k) ==
    IF k > noVars(fun) THEN <<>>
    ELSE (IF isFixed(it, fun.vars_i[k]) THEN <<>> ELSE <<fun.vars_i[k]>>)
         \o freeVars(fun, it, k + 1)

\* result(it.getVars(), it.getSubInd()) = val
putAtVars(result, vars, inds, val) ==
    [result EXCEPT !.values_i[
        sub2ind(result.size_i, filterIndices(result.vars_i, 1, vars, inds, 1)) + 1]
            = val]

\* the copying loop of DiscreteFunction::condition, from the position of it
RECURSIVE conditionCopy(_, _, _)
conditionCopy(fun, it, result) ==
    IF it.finished_i THEN result
    ELSE conditionCopy(fun, increment(it),
                       putAtVars(result, it.vars_i, it.subInd_i,
                                 fun.values_i[it.ind_i + 1]))

\* DiscreteFunction::condition once the iterator it has been conditioned
conditionedBy(fun, it) ==
    IF 0 = fixedCount(it) THEN fun
    ELSE conditionCopy(fun, it, DiscreteFunction(freeVars(fun, it, 1), ValInt(0)))

\* DiscreteFunction::condition(vBegin, vEnd, iBegin, iEnd)
conditionFunction(fun, vars, inds) ==
    conditionedBy(fun, condition(iteratorOver(fun), vars, inds))

\* addVars that gives every variable the initial state of a new one
addVarsAllNew(it, newVars) ==
    [vars_i |-> newVars,
     subInd_i |-> [k \in 1..Len(newVars) |-> 0],
     ind_i |-> it.ind_i,
     fixed_i |-> [k \in 1..Len(newVars) |-> FALSE],
     sizes_i |-> sizesOf(newVars),
     finished_i |-> FALSE]

\* the swap at the end of addVars: a variable already in the domain keeps
\* its size, sub-index and flag, a new one gets its registered size, 0 and
\* false; ind_i has been computed from the arrays of it and is kept
addVarsInto(it, newVars) ==
    [vars_i |-> newVars,
     subInd_i |-> [k \in 1..Len(newVars) |->
                      IF newVars[k] \in Range(it.vars_i)
                      THEN it.subInd_i[positionOf(it, newVars[k])] ELSE 0],
     ind_i |-> it.ind_i,
     fixed_i |-> [k \in 1..Len(newVars) |->
                     IF newVars[k] \in Range(it.vars_i)
                     THEN it.fixed_i[positionOf(it, newVars[k])] ELSE FALSE],
     sizes_i |-> [k \in 1..Len(newVars) |->
                     IF newVars[k] \in Range(it.vars_i)
                     THEN it.sizes_i[positionOf(it, newVars[k])]
                     ELSE getDomainSize(newVars[k])],
     finished_i |-> FALSE]

\* addVars(begin, end): ind_i is set from sizes_i and subInd_i before the new
\* arrays are swapped in
addVars(it, vars) ==
    addVarsInto(setInd(it), SortedSeq(Range(it.vars_i) \cup Range(vars)))

(***************************************************************************)
(* State.                                                                  *)
(***************************************************************************)
VARIABLES
    controller,      \* the MaxSumController: factors_i, actions_i and the two PostOffices
    maxIterations_i, \* the iteration cap the controller was constructed with
    pc,              \* where optimise() is: "idle", "loop", "done", "failed"
    iterationCount,  \* local of optimise()
    numOfUpdates,    \* local of optimise()
    pre,             \* the controller as it was when optimise() was called
    runs,            \* number of optimise() calls made
    post,            \* a PostOffice<FactorID, VarID, Message> used on its own
    popped,          \* how the last popNotice() on post ended: the receiver
                     \* it returned, or the exception it threw
    iterator,        \* a DomainIterator used on its own
    steps,           \* number of operator++ calls since iterator was constructed
                     \* or conditioned; -1 once it was extended or restarted
    raised,          \* whether the last call on iterator threw OutOfRangeException
    index,           \* the last call of sub2ind or ind2sub: its size list, its
                     \* sub-indices, its linear index and whether it threw
    function         \* a DiscreteFunction f used on its own, with the last
                     \* operation on it: its name, its arguments, f before
                     \* it and the output function of the last marginal

vars == <<controller, maxIterations_i, pc, iterationCount, numOfUpdates, pre, runs,
          post, popped, iterator, steps, raised, index, function>>

\* the PostOffice used on its own and what its caller holds
postVars == <<post, popped>>

\* the DomainIterator used on its own and what its caller holds, and the
\* index conversion last made
utilVars == <<iterator, steps, raised, index, function>>

\* DiscreteFunction f; with no operation made on it yet
NoFunction ==
    [f |-> ConstantFunction(ValInt(0)), over |-> << >>, last |-> "none",
     ops |-> 0, threw |-> FALSE,
     before |-> ConstantFunction(ValInt(0)), vars |-> << >>, inds |-> << >>,
     rhs |-> ConstantFunction(ValInt(0)), out |-> ConstantFunction(ValInt(0))]

\* no popNotice() call has ended yet
NotPopped == [threw |-> FALSE, value |-> << >>]

\* MaxSumController(maxIterations) and PostOffice() have been constructed
Constructed ==
    /\ controller = MaxSumController
    /\ pc = "idle"
    /\ iterationCount = 0
    /\ numOfUpdates = 0
    /\ pre = MaxSumController
    /\ runs = 0
    /\ post = PostOffice
    /\ popped = NotPopped
    /\ iterator = DomainIterator(<< >>)
    /\ steps = 0
    /\ raised = FALSE
    /\ index = [siz |-> << >>, sub |-> << >>, ind |-> 0, threw |-> FALSE]
    /\ function = NoFunction

Init ==
    /\ Constructed
    /\ maxIterations_i = MaxIterations

locals == <<maxIterations_i, pc, iterationCount, numOfUpdates, pre, runs>>

(***************************************************************************)
(* The public operations of the controller.                                *)
(***************************************************************************)
SetFactor(id, factor) ==
    /\ pc = "idle"
    /\ controller' = canonicalController(setFactor(controller, id, factor))
    /\ UNCHANGED <<locals, postVars, utilVars>>

RemoveFactor(id) ==
    /\ pc = "idle"
    /\ controller' = canonicalController(removeFactor(controller, id))
    /\ UNCHANGED <<locals, postVars, utilVars>>

\* the Messages of po created with new and not deleted
unreleased(po) == po.leaked + Cardinality(DOMAIN po.heap)

Clear ==
    /\ pc = "idle"
    /\ unreleased(controller.fac2varMsgs_i) <= MaxLeaked
    /\ unreleased(controller.var2facMsgs_i) <= MaxLeaked
    /\ controller' = canonicalController(clearController(controller))
    /\ UNCHANGED <<locals, postVars, utilVars>>

NotifyFactor(id) ==
    /\ pc = "idle"
    /\ noticeCount(controller.var2facMsgs_i) < MaxNotices
    /\ controller' = notifyFactor(controller, id)
    /\ UNCHANGED <<locals, postVars, utilVars>>

\* optimise() is entered
OptimiseCall ==
    /\ pc = "idle"
    /\ runs < MaxRuns
    /\ runs' = runs + 1
    /\ pre' = controller
    /\ iterationCount' = 0
    /\ numOfUpdates' = 0
    /\ pc' = "loop"
    /\ UNCHANGED <<controller, maxIterations_i, postVars, utilVars>>

\* numOfUpdates += updateVar2FacMsgs(), after updateFac2VarMsgs() returned
\* count
addVar2Fac(count, var2fac) ==
    [c |-> var2fac.c, threw |-> var2fac.threw,
     numOfUpdates |-> count + var2fac.count]

\* numOfUpdates = updateFac2VarMsgs(), then updateVar2FacMsgs() unless the
\* former threw
addFac2Var(updates, fac2var) ==
    IF fac2var.threw
    THEN [c |-> fac2var.c, threw |-> TRUE, numOfUpdates |-> updates]
    ELSE addVar2Fac(fac2var.count, updateVar2FacMsgs(fac2var.c))

\* the two passes of one iteration of optimise() on controller c
iteration(c, updates) == addFac2Var(updates, updateFac2VarMsgs(c))

\* an iteration after which optimise() leaves the loop whatever was counted
afterIterationBreak(it) ==
    IF it.threw THEN "failed" ELSE "done"

\* where optimise() is after an iteration
afterIteration(it) ==
    IF it.threw THEN "failed"
    ELSE IF 0 = it.numOfUpdates THEN "done" ELSE "loop"

\* optimise() run to its end on controller c, from the iteration count given:
\* the controller it leaves, and whether it threw
RECURSIVE optimise(_, _, _)
optimise(c, maxIterations, count) ==
    IF ~ (count < maxIterations) THEN [c |-> c, threw |-> FALSE]
    ELSE LET it == iteration(c, 0)
         IN IF it.threw THEN [c |-> it.c, threw |-> TRUE]
            ELSE IF 0 = it.numOfUpdates THEN [c |-> it.c, threw |-> FALSE]
            ELSE optimise(it.c, maxIterations, count + 1)

\* one iteration of the while loop of optimise(): the iteration is counted,
\* updateFac2VarMsgs() and updateVar2FacMsgs() run and their results are
\* added; the loop is left when no updates were counted
OptimiseIteration ==
    /\ pc = "loop"
    /\ iterationCount < maxIterations_i
    /\ iterationCount' = iterationCount + 1
    /\ \E it \in {iteration(controller, numOfUpdates)} :
          /\ controller' = canonicalController(it.c)
          /\ numOfUpdates' = it.numOfUpdates
          /\ pc' = afterIteration(it)
    /\ UNCHANGED <<maxIterations_i, pre, runs, postVars, utilVars>>

\* the while loop of optimise() ends at the iteration cap
OptimiseCap ==
    /\ pc = "loop"
    /\ ~ (iterationCount < maxIterations_i)
    /\ pc' = "done"
    /\ UNCHANGED <<controller, maxIterations_i, iterationCount, numOfUpdates,
                   pre, runs, postVars, utilVars>>

\* the caller has the result of optimise(): iterationCount when pc = "done",
\* an exception when pc = "failed"
OptimiseReturn ==
    /\ pc \in {"done", "failed"}
    /\ pc' = "idle"
    /\ iterationCount' = 0
    /\ numOfUpdates' = 0
    /\ pre' = MaxSumController
    /\ UNCHANGED <<controller, maxIterations_i, runs, postVars, utilVars>>

Next ==
    \/ \E id \in FactorID, factor \in Factors : SetFactor(id, factor)
    \/ \E id \in FactorID : RemoveFactor(id)
    \/ Clear
    \/ \E id \in FactorID : NotifyFactor(id)
    \/ OptimiseCall
    \/ OptimiseIteration
    \/ OptimiseCap
    \/ OptimiseReturn

Spec == Init /\ [][Next]_vars

(***************************************************************************)
(* The graph colouring scenario of the test harness: a new controller, one *)
(* colouring factor over variables 0 and 1, then optimise().               *)
(***************************************************************************)
InitColour ==
    /\ Constructed
    /\ maxIterations_i \in 1..MaxIterations

SetColourFactor(id, bias) ==
    /\ controller.factors_i = EmptyMap
    /\ SetFactor(id, ColourUtil(bias))

NextColour ==
    \/ \E id \in FactorID, bias \in Biases : SetColourFactor(id, bias)
    \/ OptimiseCall
    \/ OptimiseIteration
    \/ OptimiseCap
    \/ OptimiseReturn

SpecColour == InitColour /\ [][NextColour]_vars

(***************************************************************************)
(* A PostOffice used on its own, with factors as senders and variables as  *)
(* receivers.                                                              *)
(***************************************************************************)
controllerVars ==
    <<controller, maxIterations_i, pc, iterationCount, numOfUpdates, pre, runs>>

\* what an operation on the edges of post leaves alone
besidesPost == <<controllerVars, popped, utilVars>>

AddEdge(s, r) ==
    /\ post' = canonical(addEdge(post, s, r, DefaultMessage))
    /\ UNCHANGED besidesPost

RemoveEdge(s, r) ==
    /\ post' = canonical(removeEdge(post, s, r))
    /\ UNCHANGED besidesPost

SwapOutBoxes(s) ==
    /\ post' = canonical(swapOutBoxes(post, s))
    /\ UNCHANGED besidesPost

\* the owner of sender s writes a new message for r into its current outbox
WriteCurOut(s, r, msgVal) ==
    /\ hasEdge(post, s, r)
    /\ post' = canonical(writeCurOut(post, s, r, msgVal))
    /\ UNCHANGED besidesPost

NextPO ==
    \/ \E s \in FactorID, r \in VarID : AddEdge(s, r)
    \/ \E s \in FactorID, r \in VarID : RemoveEdge(s, r)
    \/ \E s \in FactorID : SwapOutBoxes(s)
    \/ \E s \in FactorID, r \in VarID, msgVal \in Messages : WriteCurOut(s, r, msgVal)

SpecPO == Init /\ [][NextPO]_vars

(***************************************************************************)
(* A PostOffice used on its own whose edges are added, removed, swapped    *)
(* and cleared.                                                            *)
(***************************************************************************)
ClearPost ==
    /\ unreleased(post) <= MaxLeaked
    /\ post' = canonical(clear(post))
    /\ UNCHANGED besidesPost

NextEdges ==
    \/ \E s \in FactorID, r \in VarID : AddEdge(s, r)
    \/ \E s \in FactorID, r \in VarID : RemoveEdge(s, r)
    \/ \E s \in FactorID : SwapOutBoxes(s)
    \/ ClearPost

SpecEdges == Init /\ [][NextEdges]_vars

(***************************************************************************)
(* A PostOffice used on its own whose receivers are notified and whose     *)
(* notices are popped.                                                     *)
(***************************************************************************)
Notify(r) ==
    /\ noticeCount(post) < MaxPending
    /\ post' = notify(post, r)
    /\ UNCHANGED besidesPost

NotifyAll ==
    /\ post' = notifyAll(post)
    /\ UNCHANGED besidesPost

\* popNotice(): the caller gets the oldest notice, or EmptyNoticeException
PopNotice ==
    /\ IF popNoticeThrows(post)
       THEN /\ popped' = [threw |-> TRUE, value |-> << >>]
            /\ post' = post
       ELSE /\ popped' = [threw |-> FALSE, value |-> <<front(post)>>]
            /\ post' = popNotice(post)
    /\ UNCHANGED <<controllerVars, utilVars>>

NextNotices ==
    \/ \E s \in FactorID, r \in VarID : AddEdge(s, r)
    \/ \E s \in FactorID, r \in VarID : RemoveEdge(s, r)
    \/ \E r \in VarID : Notify(r)
    \/ NotifyAll
    \/ PopNotice

SpecNotices == Init /\ [][NextNotices]_vars

(***************************************************************************)
(* A DomainIterator used on its own, over variables of the registry.       *)
(***************************************************************************)
\* the variable lists a caller passes: sorted and without duplicates
VarLists == {SortedSeq(S) : S \in SUBSET {0, 1, 2}}

\* what an operation on iterator leaves alone
besidesIterator == <<controllerVars, postVars, index, function>>

Construct(varList) ==
    /\ iterator' = DomainIterator(varList)
    /\ steps' = 0
    /\ raised' = FALSE
    /\ UNCHANGED besidesIterator

\* ++iterator: the only exception it can end with is that of sub2ind
Increment ==
    /\ iterator' = increment(iterator)
    /\ steps' = IF steps >= 0 /\ ~ iterator.finished_i
                   /\ steps < Product(iterator.sizes_i)
                THEN steps + 1 ELSE -1
    /\ raised' = sub2indThrows(iterator'.sizes_i, iterator'.subInd_i)
    /\ UNCHANGED besidesIterator

\* condition(varList, inds) with values inside the domains of the variables
Condition(varList, inds) ==
    /\ iterator' = condition(iterator, varList, inds)
    /\ steps' = 0
    /\ raised' = FALSE
    /\ UNCHANGED besidesIterator

AddVars(varList) ==
    /\ iterator' = addVars(iterator, varList)
    /\ steps' = -1
    /\ raised' = FALSE
    /\ UNCHANGED besidesIterator

GetSubInd ==
    /\ raised' = validateRangeThrows(iterator)
    /\ UNCHANGED <<iterator, steps, besidesIterator>>

GetInd ==
    /\ raised' = validateRangeThrows(iterator)
    /\ UNCHANGED <<iterator, steps, besidesIterator>>

NextIterator ==
    \/ \E varList \in VarLists : Construct(varList)
    \/ Increment
    \/ \E varList \in VarLists :
           \E inds \in [1..Len(varList) -> 0..1] : Condition(varList, inds)
    \/ \E varList \in VarLists : AddVars(varList)
    \/ GetSubInd
    \/ GetInd

SpecIterator == Init /\ [][NextIterator]_vars

(***************************************************************************)
(* The index conversions called on their own.                              *)
(***************************************************************************)
\* the size lists a caller passes
SizeLists == UNION {[1..n -> 1..3] : n \in 0..3}

\* what a conversion leaves alone
besidesIndex == <<controllerVars, postVars, iterator, steps, raised, function>>

\* sub2ind(siz, sub), the first conversion made
Sub2Ind(siz, sub) ==
    /\ index.siz = << >>
    /\ index' = IF sub2indThrows(siz, sub)
                THEN [siz |-> siz, sub |-> sub, ind |-> 0, threw |-> TRUE]
                ELSE [siz |-> siz, sub |-> sub, ind |-> sub2ind(siz, sub),
                      threw |-> FALSE]
    /\ UNCHANGED besidesIndex

\* ind2sub(siz, ind, sub), the first conversion made
Ind2Sub(siz, ind) ==
    /\ index.siz = << >>
    /\ index' = IF ind2subThrows(siz, ind)
                THEN [siz |-> siz, sub |-> << >>, ind |-> ind, threw |-> TRUE]
                ELSE [siz |-> siz, sub |-> ind2sub(siz, ind), ind |-> ind,
                      threw |-> FALSE]
    /\ UNCHANGED besidesIndex

NextIndex ==
    \/ \E siz \in SizeLists : \E sub \in [1..Len(siz) -> -1..3] : Sub2Ind(siz, sub)
    \/ \E siz \in SizeLists : \E ind \in -1..Product(siz) : Ind2Sub(siz, ind)

SpecIndex == Init /\ [][NextIndex]_vars

(***************************************************************************)
(* A DiscreteFunction used on its own: it is constructed over a list of    *)
(* variables and given its values, then expanded, conditioned, combined    *)
(* with other functions and marginalised.                                  *)
(***************************************************************************)
\* the variable lists a caller passes, sorted or not, without repetitions
DistinctLists == {<< >>, <<0>>, <<1>>, <<2>>, <<0, 1>>, <<1, 0>>, <<0, 2>>, <<1, 2>>}

\* the sorted ones, which condition expects
SortedLists == {varList \in DistinctLists : varList = sort(varList)}

\* the variable lists a function is constructed over
NewLists == {<< >>, <<0>>, <<1>>, <<0, 1>>, <<1, 0>>}

\* variable lists with a repeated variable
RepeatedLists == {<<0, 0>>, <<1, 1>>}

\* the right-hand sides of the arithmetic operators
Operands ==
    {ConstantFunction(ValInt(2)),
     Function(<<0>>, <<1, 2>>, 1),
     Function(<<2>>, <<3, -1>>, 1),
     Function(<<0, 1>>, <<1, 2, 3, 4>>, 2)}

\* what an operation on function leaves alone
besidesFunction == <<controllerVars, postVars, iterator, steps, raised, index>>

\* function after the operation last on f, which gave after
operated(last, after, threw, varList, inds, rhs) ==
    [function EXCEPT !.f = after, !.last = last, !.ops = @ + 1, !.threw = threw,
                     !.before = function.f, !.vars = varList, !.inds = inds,
                     !.rhs = rhs]

\* DiscreteFunction f(varList.begin(), varList.end()); f(k) = nums[k + 1];
NewFunction(varList, nums) ==
    /\ function.last = "none"
    /\ function' = [NoFunction EXCEPT !.f = Function(varList, nums, 1),
                                      !.over = varList, !.last = "construct"]
    /\ UNCHANGED besidesFunction

\* f.expand(varList.begin(), varList.end())
Expand(varList) ==
    /\ function.last # "none"
    /\ function.ops < MaxOps
    /\ function' =
           IF expandThrows(function.f, varList)
           THEN operated("expand", function.f, TRUE, varList, << >>, NoFunction.rhs)
           ELSE operated("expand", expand(function.f, varList), FALSE,
                         varList, << >>, NoFunction.rhs)
    /\ UNCHANGED besidesFunction

\* f.condition(varList.begin(), varList.end(), inds.begin(), inds.end())
ConditionOn(varList, inds) ==
    /\ function.last # "none"
    /\ function.ops < MaxOps
    /\ function' = operated("condition",
                            conditionFunction(function.f, varList, inds), FALSE,
                            varList, inds, NoFunction.rhs)
    /\ UNCHANGED besidesFunction

\* f += rhs, f -= rhs, f *= rhs, f /= rhs
Arithmetic(rhs) ==
    /\ function.last # "none"
    /\ function.ops < MaxOps
    /\ \E name \in {"+=", "-=", "*=", "/="} :
           function' =
               IF ArithThrows(function.f, rhs)
               THEN operated(name, ArithThrown(function.f, rhs), TRUE,
                             << >>, << >>, rhs)
               ELSE operated(name,
                             CASE name = "+=" -> PlusAssign(function.f, rhs)
                               [] name = "-=" -> MinusAssign(function.f, rhs)
                               [] name = "*=" -> TimesAssign(function.f, rhs)
                               [] name = "/=" -> DivideAssign(function.f, rhs),
                             FALSE, << >>, << >>, rhs)
    /\ UNCHANGED besidesFunction

\* DiscreteFunction out(varList.begin(), varList.end());
\* maxMarginal(f, out) or minMarginal(f, out)
Marginal(varList) ==
    /\ function.last # "none"
    /\ function.ops < MaxOps
    /\ \E name \in {"maxMarginal", "minMarginal"} :
           function' =
               IF marginalThrows(function.f, DiscreteFunction(varList, ValInt(0)))
               THEN [operated(name, function.f, TRUE, varList, << >>, NoFunction.rhs)
                        EXCEPT !.out = DiscreteFunction(varList, ValInt(0))]
               ELSE [operated(name, function.f, FALSE, varList, << >>, NoFunction.rhs)
                        EXCEPT !.out =
                            IF name = "maxMarginal"
                            THEN maxMarginal(function.f,
                                             DiscreteFunction(varList, ValInt(0)))
                            ELSE minMarginal(function.f,
                                             DiscreteFunction(varList, ValInt(0)))]
    /\ UNCHANGED besidesFunction

\* the operations on a function once it is constructed
Operate ==
    \/ \E varList \in DistinctLists : Expand(varList)
    \/ \E varList \in SortedLists :
           \E inds \in [1..Len(varList) -> 0..1] : ConditionOn(varList, inds)
    \/ \E rhs \in Operands : Arithmetic(rhs)
    \/ \E varList \in DistinctLists : Marginal(varList)

\* functions constructed over lists without repetitions, as the constructor
\* expects
NextFunction ==
    \/ \E varList \in NewLists :
           \E nums \in [1..Product(sizesOf(varList)) -> 1..2] :
               NewFunction(varList, nums)
    \/ Operate

SpecFunction == Init /\ [][NextFunction]_vars

\* functions constructed over any list
NextFunctionAny ==
    \/ \E varList \in NewLists \cup RepeatedLists :
           \E nums \in [1..Product(sizesOf(varList)) -> 1..2] :
               NewFunction(varList, nums)
    \/ Operate

SpecFunctionAny == Init /\ [][NextFunctionAny]_vars

(***************************************************************************)
(* Properties.                                                             *)
(***************************************************************************)
\* C1: in every state of a PostOffice reached by addEdge, removeEdge and
\* swapOutBoxes (and writes to current outboxes), for every existing edge
\* (s, r) the current outbox entry of s for r and the current inbox entry of
\* r from s hold the same pointer to a live Message, and so do the previous
\* outbox entry and the previous inbox entry.
C1_SameInstance ==
    \A s \in FactorID, r \in VarID :
        hasEdge(post, s, r) =>
            /\ r \in DOMAIN post.curInboxes_i
            /\ s \in DOMAIN post.curInboxes_i[r]
            /\ post.curInboxes_i[r][s] = post.curOutboxes_i[s][r]
            /\ post.curOutboxes_i[s][r] \in DOMAIN post.heap
            /\ s \in DOMAIN post.prevOutboxes_i
            /\ r \in DOMAIN post.prevOutboxes_i[s]
            /\ r \in DOMAIN post.prevInboxes_i
            /\ s \in DOMAIN post.prevInboxes_i[r]
            /\ post.prevInboxes_i[r][s] = post.prevOutboxes_i[s][r]
            /\ post.prevOutboxes_i[s][r] \in DOMAIN post.heap

\* a sender with two receivers whose outboxes were written, swapped and
\* written again, while the other sender lost an edge
C1_Witness ==
    /\ hasEdge(post, 1, 0) /\ hasEdge(post, 1, 1)
    /\ curOutMsg(post, 1, 0) = 2 /\ prevOutMsg(post, 1, 0) = 1
    /\ curOutMsg(post, 1, 1) = 1 /\ prevOutMsg(post, 1, 1) = 2
    /\ ~ hasSender(post, 2) /\ 2 \in DOMAIN post.prevOutboxes_i

\* C2: setFactor(id, f) for an already stored factor id leaves, for every
\* variable in both the old domain of id and the domain of f, the current
\* and previous messages of the edge in both PostOffices and the stored
\* assignment of the variable as they were.
C2_KeepsCommonEdges ==
    [][\A id \in FactorID, f \in Factors :
          (SetFactor(id, f) /\ hasFactor(controller, id)) =>
              \A var \in Range(controller.factors_i[id].vars_i) \cap Range(f.vars_i) :
                  /\ hasEdgeController(controller', id, var)
                  /\ curOutMsg(controller'.fac2varMsgs_i, id, var)
                        = curOutMsg(controller.fac2varMsgs_i, id, var)
                  /\ prevOutMsg(controller'.fac2varMsgs_i, id, var)
                        = prevOutMsg(controller.fac2varMsgs_i, id, var)
                  /\ curOutMsg(controller'.var2facMsgs_i, var, id)
                        = curOutMsg(controller.var2facMsgs_i, var, id)
                  /\ prevOutMsg(controller'.var2facMsgs_i, var, id)
                        = prevOutMsg(controller.var2facMsgs_i, var, id)
                  /\ controller'.actions_i[var] = controller.actions_i[var]]_vars

\* C3: hasEdge(f, v) is true exactly when factor f is stored and variable v
\* is in the domain of the function stored for f.
C3_EdgesFollowDomains ==
    \A id \in FactorID, var \in VarID :
        hasEdgeController(controller, id, var)
            <=> (hasFactor(controller, id)
                 /\ var \in Range(controller.factors_i[id].vars_i))

\* both factors are stored, factor 1 over variable 0 only and factor 2 over
\* variables 0 and 1
C3_Witness ==
    /\ hasFactor(controller, 1) /\ hasFactor(controller, 2)
    /\ controller.factors_i[1].vars_i = <<0>>
    /\ controller.factors_i[2].vars_i = <<0, 1>>
    /\ hasEdgeController(controller, 1, 0) /\ ~ hasEdgeController(controller, 1, 1)
    /\ hasEdgeController(controller, 2, 1)

\* C4: a variable has a stored assignment exactly when it is in the domain
\* of at least one stored factor.
C4_ValuesFollowDomains ==
    \A var \in VarID :
        hasValue(controller, var)
            <=> \E id \in DOMAIN controller.factors_i :
                    var \in Range(controller.factors_i[id].vars_i)

\* after an optimise() that assigned 1 to variable 0, variable 1 has lost
\* its last factor and its assignment
C4_Witness ==
    /\ pc = "idle" /\ runs = 1
    /\ hasValue(controller, 0) /\ controller.actions_i[0] = 1
    /\ ~ hasValue(controller, 1)
    /\ hasFactor(controller, 1) /\ hasFactor(controller, 2)

\* C5: optimise() always returns (it never ends with an exception) and has
\* then performed at most maxIterations iterations.
C5_AlwaysReturns ==
    /\ pc # "failed"
    /\ iterationCount <= maxIterations_i

\* C6: optimise() returns after the first iteration in which neither pass
\* produced a notification, with the number of that iteration, and after
\* maxIterations iterations if there is no such iteration.
C6_ReturnsFirstQuietIteration ==
    [][(pc = "loop" /\ pc' \in {"loop", "done"}) =>
          IF iterationCount < maxIterations_i
          THEN LET fac2var == updateFac2VarMsgs(controller)
                   var2fac == updateVar2FacMsgs(fac2var.c)
                   producedFac == noticeCount(fac2var.c.fac2varMsgs_i)
                                     - noticeCount(controller.fac2varMsgs_i)
                   producedVar == noticeCount(var2fac.c.var2facMsgs_i)
                                     - noticeCount(fac2var.c.var2facMsgs_i)
               IN /\ iterationCount' = iterationCount + 1
                  /\ (pc' = "done") <=> (producedFac = 0 /\ producedVar = 0)
          ELSE /\ pc' = "done"
               /\ iterationCount' = maxIterations_i]_vars

\* C7: optimise() on a controller with no factors pops no notice, computes
\* no message, leaves the controller as it was and returns.
C7_EmptyGraphUntouched ==
    (pc \in {"loop", "done", "failed"} /\ pre.factors_i = EmptyMap) =>
        (pc # "failed" /\ controller = pre)

\* C8: when optimise() has returned on a controller that holds a single
\* factor, over one variable, the stored value of that variable is the
\* lowest index at which the factor attains its maximum.
C8_SingleFactorArgmax ==
    \A id \in FactorID :
        (pc = "done" /\ DOMAIN controller.factors_i = {id}
                     /\ noVars(controller.factors_i[id]) = 1) =>
            LET f == controller.factors_i[id]
                val == controller.actions_i[f.vars_i[1]]
            IN /\ val \in 0..(domainSize(f) - 1)
               /\ \A k \in 0..(domainSize(f) - 1) :
                      ~ ValLess(f.values_i[val + 1], f.values_i[k + 1])
               /\ \A k \in 0..(val - 1) :
                      ValLess(f.values_i[k + 1], f.values_i[val + 1])

\* optimise() has returned for a single factor over variable 0 whose maximum
\* is at index 1
C8_Witness ==
    /\ pc = "done"
    /\ DOMAIN controller.factors_i = {1}
    /\ controller.factors_i[1] = Function(<<0>>, <<1, 2>>, 1)
    /\ controller.actions_i[0] = 1

\* C9: when optimise() has returned on a new controller given one colouring
\* factor over two variables (-1 when their values are equal, 0 otherwise,
\* plus distinct small biases), the two variables have different values.
C9_NoConflict ==
    (pc = "done" /\ controller.factors_i # EmptyMap) =>
        /\ hasValue(controller, 0) /\ hasValue(controller, 1)
        /\ controller.actions_i[0] # controller.actions_i[1]

\* optimise() has returned with variable 0 at index 1 and variable 1 at
\* index 0
C9_Witness ==
    /\ pc = "done"
    /\ \E id \in FactorID, bias \in Biases :
           controller.factors_i = MapPut(EmptyMap, id, ColourUtil(bias))
    /\ controller.actions_i[0] = 1
    /\ controller.actions_i[1] = 0

\* C10: when optimise() fails with an exception the controller is as it was
\* when optimise() was called: factors, assignments, edges, messages and
\* pending notices.
C10_FailsBeforeMutating ==
    pc = "failed" => controller = pre

\* C11: swapOutBoxes(s) exchanges, for every receiver r of s, the Message
\* instances of edge (s, r): the pointer that was the previous message
\* becomes the current one and the pointer that was the current message
\* becomes the previous one, in the outboxes of s and in the inboxes of r,
\* and no Message is created, deleted or written.
C11_SwapExchangesInstances ==
    \A s \in FactorID :
        hasSender(post, s) =>
            /\ swapOutBoxes(post, s).heap = post.heap
            /\ \A r \in DOMAIN post.curOutboxes_i[s] :
                /\ swapOutBoxes(post, s).curOutboxes_i[s][r] = post.prevOutboxes_i[s][r]
                /\ swapOutBoxes(post, s).prevOutboxes_i[s][r] = post.curOutboxes_i[s][r]
                /\ swapOutBoxes(post, s).curInboxes_i[r][s] = post.prevInboxes_i[r][s]
                /\ swapOutBoxes(post, s).prevInboxes_i[r][s] = post.curInboxes_i[r][s]

\* sender 1 wrote to both its receivers and swapped its outboxes: what it
\* wrote is now the previous message and the initial message the current one
C11_Witness ==
    /\ hasEdge(post, 1, 0) /\ hasEdge(post, 1, 1)
    /\ curOutMsg(post, 1, 0) = DefaultMessage /\ prevOutMsg(post, 1, 0) = 1
    /\ curInMsg(post, 0, 1) = DefaultMessage /\ prevInMsg(post, 0, 1) = 1
    /\ curOutMsg(post, 1, 1) = DefaultMessage /\ prevOutMsg(post, 1, 1) = 2

\* C12: addEdge(s, r, msgVal) on an edge that exists changes nothing: the
\* four maps keep their entries and pointers, the Messages keep their values,
\* no Message is created, and so the edges, senders and receivers are the
\* same.
C12_AddExistingIsNoOp ==
    \A s \in FactorID, r \in VarID, msgVal \in Messages \cup {DefaultMessage} :
        hasEdge(post, s, r) =>
            /\ addEdge(post, s, r, msgVal) = post
            /\ numOfEdges(addEdge(post, s, r, msgVal)) = numOfEdges(post)
            /\ numOfSenders(addEdge(post, s, r, msgVal)) = numOfSenders(post)
            /\ numOfReceivers(addEdge(post, s, r, msgVal)) = numOfReceivers(post)

\* an existing edge whose current and previous message differ from each
\* other and from the message a new edge starts with
C12_Witness ==
    /\ hasEdge(post, 2, 1)
    /\ curOutMsg(post, 2, 1) = 1
    /\ prevOutMsg(post, 2, 1) = 2
    /\ numOfEdges(post) = 3

\* C13: after removeEdge(s, r) on an existing edge none of the four maps has
\* an entry for the pair (s, r); a sender left without edges is a key of
\* neither the current nor the previous outboxes, and a receiver left without
\* edges is a key of neither the current nor the previous inboxes.
C13_RemoveErasesEverywhere ==
    \A s \in FactorID, r \in VarID :
        hasEdge(post, s, r) =>
            LET after == removeEdge(post, s, r)
                pairIn(boxes, a, b) == a \in DOMAIN boxes /\ b \in DOMAIN boxes[a]
            IN /\ ~ pairIn(after.curOutboxes_i, s, r)
               /\ ~ pairIn(after.prevOutboxes_i, s, r)
               /\ ~ pairIn(after.curInboxes_i, r, s)
               /\ ~ pairIn(after.prevInboxes_i, r, s)
               /\ (\A q \in VarID : ~ hasEdge(after, s, q)) =>
                      /\ s \notin DOMAIN after.curOutboxes_i
                      /\ s \notin DOMAIN after.prevOutboxes_i
               /\ (\A q \in FactorID : ~ hasEdge(after, q, r)) =>
                      /\ r \notin DOMAIN after.curInboxes_i
                      /\ r \notin DOMAIN after.prevInboxes_i

\* C14: in every reachable state of a PostOffice, curOutMsgs(s) and
\* prevOutMsgs(s) throw UnknownAddressException for a sender s without
\* edges, and curInMsgs(r) and prevInMsgs(r) throw it for a receiver r
\* without edges.
C14_LookupsFailWithoutEdges ==
    /\ \A s \in FactorID :
          (\A r \in VarID : ~ hasEdge(post, s, r)) =>
              curOutMsgsThrows(post, s) /\ prevOutMsgsThrows(post, s)
    /\ \A r \in VarID :
          (\A s \in FactorID : ~ hasEdge(post, s, r)) =>
              curInMsgsThrows(post, r) /\ prevInMsgsThrows(post, r)

\* C15: in every state of a PostOffice reached by addEdge, removeEdge,
\* swapOutBoxes and clear, the Messages created with new and not deleted are
\* exactly the current and the previous Message of the existing edges, two
\* distinct ones per edge.
C15_OnlyEdgeMessagesLive ==
    /\ post.leaked = 0
    /\ unreleased(post) = 2 * numOfEdges(post)
    /\ DOMAIN post.heap =
          UNION {{post.curOutboxes_i[s][r], post.prevOutboxes_i[s][r]} :
                    <<s, r>> \in {e \in FactorID \X VarID : hasEdge(post, e[1], e[2])}}

\* the pairs (s, r) for which hasEdge(s, r) returns true
edgesOf(po) == {e \in FactorID \X VarID : hasEdge(po, e[1], e[2])}

\* C16: a new PostOffice has no edge; from every reachable state,
\* addEdge(s, r) adds the pair (s, r) to the pairs hasEdge reports and changes
\* no other pair, and removeEdge(s, r) takes it away and changes no other
\* pair; in every reachable state numOfEdges is the number of these pairs and
\* numOfSenders and numOfReceivers are the numbers of distinct senders and
\* receivers among them.
C16_EdgesAreAddedNotRemoved ==
    /\ edgesOf(PostOffice) = {}
    /\ \A s \in FactorID, r \in VarID :
          /\ edgesOf(addEdge(post, s, r, DefaultMessage)) = edgesOf(post) \cup {<<s, r>>}
          /\ edgesOf(removeEdge(post, s, r)) = edgesOf(post) \ {<<s, r>>}
    /\ numOfEdges(post) = Cardinality(edgesOf(post))
    /\ numOfSenders(post) = Cardinality({e[1] : e \in edgesOf(post)})
    /\ numOfReceivers(post) = Cardinality({e[2] : e \in edgesOf(post)})

\* both senders have an edge to receiver 0 and nothing else, after an edge
\* to receiver 1 was added and removed again
C16_Witness ==
    /\ edgesOf(post) = {<<1, 0>>, <<2, 0>>}
    /\ 1 \in DOMAIN post.prevInboxes_i
    /\ numOfEdges(post) = 2
    /\ numOfSenders(post) = 2
    /\ numOfReceivers(post) = 1

\* C17: popNotice() throws EmptyNoticeException, and changes nothing,
\* exactly when no notice is pending; otherwise it returns the oldest pending
\* notice and takes it off the queue: the other notices stay pending in their
\* order and noticeCount() is one less.
C17_PopIsFirstInFirstOut ==
    [][PopNotice =>
          IF noticeCount(post) = 0
          THEN popped'.threw /\ post' = post
          ELSE /\ ~ popped'.threw
               /\ popped'.value = <<post.notices_i[1]>>
               /\ noticeCount(post') = noticeCount(post) - 1
               /\ \A k \in 1..noticeCount(post') :
                     post'.notices_i[k] = post.notices_i[k + 1]
               /\ [post' EXCEPT !.notices_i = post.notices_i] = post]_vars

\* receiver 1 was popped while the notice for receiver 0 is still pending
C17_Witness ==
    /\ ~ popped.threw
    /\ popped.value = <<1>>
    /\ post.notices_i = <<0>>

\* the receivers that have at least one edge
receiversWithEdge(po) == {r \in VarID : \E s \in FactorID : hasEdge(po, s, r)}

\* C18: from every reachable state of a PostOffice, whatever notices are
\* pending, notifyAll() followed by popping until no notice is pending yields
\* every receiver that has an edge exactly once and no other receiver.
C18_NotifyAllNotifiesReceiversOnce ==
    /\ Range(popAll(notifyAll(post))) = receiversWithEdge(post)
    /\ Len(popAll(notifyAll(post))) = Cardinality(receiversWithEdge(post))

\* both receivers have an edge and are pending, each once, after a notice
\* for receiver 1 had been popped
C18_Witness ==
    /\ receiversWithEdge(post) = {0, 1}
    /\ post.notices_i = <<0, 1>>
    /\ popped = [threw |-> FALSE, value |-> <<1>>]
    /\ post = notifyAll(post)

\* C19: when setFactor, or removeFactor of a stored factor, returns, every
\* factor that has at least one edge is pending in the notice queue of the
\* variable-to-factor PostOffice and every variable of the graph is pending
\* in the notice queue of the factor-to-variable PostOffice.  The variables
\* of the graph are those in the domain of a stored factor, those with an
\* edge and those with an entry in actions_i.
C19_ChangesNotifyEveryone ==
    LET variablesOf(c) ==
            UNION {Range(c.factors_i[id].vars_i) : id \in DOMAIN c.factors_i}
                \cup receiversWithEdge(c.fac2varMsgs_i)
                \cup DOMAIN c.actions_i
        allNotified(c) ==
            /\ \A id \in FactorID :
                   (\E var \in VarID : hasEdgeController(c, id, var))
                       => id \in Range(c.var2facMsgs_i.notices_i)
            /\ variablesOf(c) \subseteq Range(c.fac2varMsgs_i.notices_i)
    IN pc = "idle" =>
           /\ \A id \in FactorID, factor \in Factors :
                  allNotified(setFactor(controller, id, factor))
           /\ \A id \in FactorID :
                  hasFactor(controller, id)
                      => allNotified(removeFactor(controller, id))

\* setFactor has returned with both factors related to both variables, all
\* four of them pending
C19_Witness ==
    /\ pc = "idle"
    /\ \A id \in FactorID, var \in VarID : hasEdgeController(controller, id, var)
    /\ controller.var2facMsgs_i.notices_i = <<1, 2>>
    /\ controller.fac2varMsgs_i.notices_i = <<0, 1>>
    /\ \E id \in FactorID :
           controller = canonicalController(
                            setFactor(controller, id, controller.factors_i[id]))

\* C20: after removeFactor(id) for a stored factor, hasFactor(id) is false,
\* no edge incident to id remains in either PostOffice and every variable
\* that was only in the domain of id has no stored assignment, while the
\* other factors, their edges and the assignments of their variables remain.
C20_RemoveFactorRemovesOnlyIt ==
    pc = "idle" =>
        \A id \in DOMAIN controller.factors_i :
            LET after == removeFactor(controller, id)
                others == DOMAIN controller.factors_i \ {id}
                domainOf(other) == Range(controller.factors_i[other].vars_i)
                kept == UNION {domainOf(other) : other \in others}
            IN /\ ~ hasFactor(after, id)
               /\ \A var \in VarID :
                      /\ ~ hasEdge(after.fac2varMsgs_i, id, var)
                      /\ ~ hasEdge(after.var2facMsgs_i, var, id)
               /\ \A var \in domainOf(id) \ kept : ~ hasValue(after, var)
               /\ DOMAIN after.factors_i = others
               /\ \A other \in others :
                      /\ after.factors_i[other] = controller.factors_i[other]
                      /\ \A var \in VarID :
                             /\ hasEdge(after.fac2varMsgs_i, other, var)
                                    = hasEdge(controller.fac2varMsgs_i, other, var)
                             /\ hasEdge(after.var2facMsgs_i, var, other)
                                    = hasEdge(controller.var2facMsgs_i, var, other)
                      /\ \A var \in domainOf(other) :
                             /\ hasValue(after, var)
                             /\ after.actions_i[var] = controller.actions_i[var]

\* removeFactor(1) has returned: factor 1, once related to both variables, is
\* gone with its edges and with the assignment of variable 0, while factor 2
\* is still related to variable 1, which keeps its assignment
C20_Witness ==
    /\ pc = "idle"
    /\ DOMAIN controller.factors_i = {2}
    /\ controller.factors_i[2].vars_i = <<1>>
    /\ DOMAIN controller.actions_i = {1}
    /\ hasEdgeController(controller, 2, 1)
    /\ 0 \in DOMAIN controller.var2facMsgs_i.prevOutboxes_i
    /\ controller.var2facMsgs_i.notices_i = <<2>>
    /\ controller.fac2varMsgs_i.notices_i = <<1>>

\* C21: after clear() the controller has no factors, no variable
\* assignments, no edges in either PostOffice and no pending notices: its
\* four structures are those of a freshly constructed controller.
C21_ClearResetsController ==
    pc = "idle" =>
        LET after == clearController(controller)
            emptied(po) ==
                /\ po.curOutboxes_i = EmptyMap /\ po.prevOutboxes_i = EmptyMap
                /\ po.curInboxes_i = EmptyMap /\ po.prevInboxes_i = EmptyMap
                /\ numOfEdges(po) = 0
                /\ ~ newMail(po)
                /\ [canonical(po) EXCEPT !.leaked = 0] = PostOffice
        IN /\ \A id \in FactorID : ~ hasFactor(after, id)
           /\ \A var \in VarID : ~ hasValue(after, var)
           /\ \A id \in FactorID, var \in VarID : ~ hasEdgeController(after, id, var)
           /\ emptied(after.fac2varMsgs_i)
           /\ emptied(after.var2facMsgs_i)
           /\ after.factors_i = MaxSumController.factors_i
           /\ after.actions_i = MaxSumController.actions_i

\* clear() has returned on a controller that had stored factors with edges:
\* the Messages of those edges are no longer referred to and nothing else is
\* left
C21_Witness ==
    /\ pc = "idle"
    /\ controller.fac2varMsgs_i.leaked > 0
    /\ controller.var2facMsgs_i.leaked > 0
    /\ [controller EXCEPT !.fac2varMsgs_i.leaked = 0,
                          !.var2facMsgs_i.leaked = 0] = MaxSumController

\* C22: in the factor-to-variable pass, after the message of a factor to a
\* neighbouring variable is recomputed, that variable is notified exactly
\* when the max-norm of the difference between the new message and the
\* value the message had before the pass reached the factor exceeds the
\* threshold.  rounds walks the rounds of the pass that starts
\* in the current state; sent is the PostOffice once the messages to the
\* first k - 1 neighbours of the round's factor have been recomputed.
C22_NotifiesVariableWhenChanged ==
    (pc = "loop" /\ iterationCount < maxIterations_i) =>
        LET sentTo(before, fac, msgSum, vs, k) ==
                LET sent == fac2varLoop(
                                [before EXCEPT !.fac2varMsgs_i = swapOutBoxes(@, fac)],
                                fac, msgSum, SubSeq(vs, 1, k - 1)).fac2varMsgs_i
                    after == fac2varSend(sent, before.var2facMsgs_i,
                                         fac, vs[k], msgSum)
                    diff == maxnorm(MinusAssign(
                                curOutMsg(after, fac, vs[k]),
                                curOutMsg(before.fac2varMsgs_i, fac, vs[k])))
                IN after.notices_i =
                       IF diff.n * ThresholdDen > diff.d
                       THEN Append(sent.notices_i, vs[k])
                       ELSE sent.notices_i
            roundOf(before, fac) ==
                LET msgSum ==
                        sumMsgs(before.factors_i[fac], before.var2facMsgs_i.heap,
                                before.var2facMsgs_i.curInboxes_i[fac],
                                SortedSeq(DOMAIN before.var2facMsgs_i.curInboxes_i[fac]))
                    vs == SortedSeq(DOMAIN before.fac2varMsgs_i.curOutboxes_i[fac])
                IN \A k \in 1..Len(vs) : sentTo(before, fac, msgSum, vs, k)
            RECURSIVE rounds(_)
            rounds(before) ==
                \/ ~ newMail(before.var2facMsgs_i)
                \/ LET round == fac2varRound(before)
                   IN \/ round.threw
                      \/ /\ roundOf(before, front(before.var2facMsgs_i))
                         /\ rounds(round.c)
        IN rounds(controller)

\* the first iteration has recomputed the messages of the factors: one of
\* them moved by more than the threshold and one did not move
C22_Witness ==
    /\ pc = "loop"
    /\ iterationCount = 1
    /\ \E fac \in DOMAIN controller.fac2varMsgs_i.curOutboxes_i :
           \E var \in DOMAIN controller.fac2varMsgs_i.curOutboxes_i[fac] :
               aboveThreshold(maxnorm(MinusAssign(
                   curOutMsg(controller.fac2varMsgs_i, fac, var),
                   prevOutMsg(controller.fac2varMsgs_i, fac, var))))
    /\ \E fac \in DOMAIN controller.fac2varMsgs_i.curOutboxes_i :
           \E var \in DOMAIN controller.fac2varMsgs_i.curOutboxes_i[fac] :
               curOutMsg(controller.fac2varMsgs_i, fac, var)
                   = prevOutMsg(controller.fac2varMsgs_i, fac, var)

\* C23: in the variable-to-factor pass, when the recomputed best assignment
\* of a variable differs from its stored value, the stored value is updated
\* and exactly the factors neighbouring that variable are notified as a
\* result: every neighbour is pending afterwards and no other factor is
\* pending that was not pending before.  rounds[j] is the controller after
\* the factor-to-variable pass and j rounds of the variable-to-factor pass
\* of the iteration that starts in the current state; sent is the
\* controller once the messages of the round's variable have been sent.
C23_NotifiesNeighboursOfChangedVariable ==
    pc = "loop" =>
        LET rounds[j \in 0..4] ==
                IF j = 0
                THEN [c |-> updateFac2VarMsgs(controller).c,
                      threw |-> updateFac2VarMsgs(controller).threw]
                ELSE IF rounds[j - 1].threw
                        \/ ~ newMail(rounds[j - 1].c.fac2varMsgs_i)
                     THEN [c |-> rounds[j - 1].c, threw |-> TRUE]
                     ELSE var2facRound(rounds[j - 1].c)
        IN \A j \in 0..3 :
               (~ rounds[j].threw /\ ~ rounds[j + 1].threw) =>
                   LET before == rounds[j].c
                       var == front(before.fac2varMsgs_i)
                       neighbours ==
                           {fac \in FactorID : hasEdgeController(before, fac, var)}
                       swapped1 ==
                           [before EXCEPT !.fac2varMsgs_i = popNotice(@),
                                          !.var2facMsgs_i = swapOutBoxes(@, var)]
                       msgSum ==
                           sumMsgs(DiscreteFunction(<<var>>, ValInt(0)),
                                   before.fac2varMsgs_i.heap,
                                   before.fac2varMsgs_i.curInboxes_i[var],
                                   SortedSeq(DOMAIN before.fac2varMsgs_i.curInboxes_i[var]))
                       sent == var2facLoop(swapped1, var, msgSum,
                                           SortedSeq(neighbours))
                       after == rounds[j + 1].c
                   IN argmax(msgSum) # before.actions_i[var] =>
                          /\ after.actions_i[var] = argmax(msgSum)
                          /\ Range(after.var2facMsgs_i.notices_i)
                                 = Range(sent.var2facMsgs_i.notices_i) \cup neighbours

\* C24: after any sequence of construction, increment, condition and
\* addVars that leaves the DomainIterator active, its linear index equals
\* sub2ind applied to its cached sizes and its current sub-indices.
C24_IndexFollowsSubIndices ==
    ~ iterator.finished_i =>
        iterator.ind_i = sub2ind(iterator.sizes_i, iterator.subInd_i)

\* C25: starting from a newly constructed or newly conditioned
\* DomainIterator, repeated increment visits every combination of values of
\* the free variables exactly once, the first free variable in domain order
\* varying fastest and every fixed variable keeping its value, and the
\* iterator becomes finished after exactly product(sizes of the free
\* variables) positions have been visited: the position reached by the n-th
\* increment has linear index n among the free variables, and the iterator is
\* finished exactly when n is the product.
C25_VisitsFreeDomainOnce ==
    /\ [](steps >= 0 =>
            LET free == SortedSeq({k \in 1..Len(iterator.vars_i) :
                                      ~ iterator.fixed_i[k]})
                freeSizes == [j \in 1..Len(free) |-> iterator.sizes_i[free[j]]]
                freeSub == [j \in 1..Len(free) |-> iterator.subInd_i[free[j]]]
            IN IF iterator.finished_i
               THEN steps = Product(freeSizes)
               ELSE /\ steps < Product(freeSizes)
                    /\ sub2ind(freeSizes, freeSub) = steps)
    /\ [][Increment =>
            \A k \in 1..Len(iterator.vars_i) :
                iterator.fixed_i[k] =>
                    /\ iterator'.fixed_i[k]
                    /\ iterator'.subInd_i[k] = iterator.subInd_i[k]]_vars

\* an iterator over three variables, conditioned on variable 1 at value 1,
\* has finished after the four positions of variables 0 and 2
C25_Witness ==
    /\ steps = 4
    /\ iterator.finished_i
    /\ iterator.vars_i = <<0, 1, 2>>
    /\ iterator.fixed_i = <<FALSE, TRUE, FALSE>>
    /\ iterator.subInd_i = <<0, 1, 0>>

\* C26: after condition(variables, values) every listed variable that is in
\* the domain of the iterator is fixed at the given value, every free
\* variable is at 0 and the iterator is active, even if it was finished
\* before or has no free variable left; with no free variable the fixed
\* position can be read and a single increment finishes the iterator.
C26_ConditionFixesAndRestarts ==
    \A varList \in VarLists :
        \A inds \in [1..Len(varList) -> 0..1] :
            LET after == condition(iterator, varList, inds)
                domain == 1..Len(after.vars_i)
            IN /\ after.vars_i = iterator.vars_i
               /\ \A k \in 1..Len(varList) :
                      varList[k] \in Range(iterator.vars_i) =>
                          /\ after.fixed_i[positionOf(iterator, varList[k])]
                          /\ after.subInd_i[positionOf(iterator, varList[k])] = inds[k]
               /\ \A p \in domain : ~ after.fixed_i[p] => after.subInd_i[p] = 0
               /\ ~ after.finished_i
               /\ (\A p \in domain : after.fixed_i[p]) =>
                      /\ ~ validateRangeThrows(after)
                      /\ increment(after).finished_i
                      /\ increment(after).subInd_i = after.subInd_i

\* a finished or running iterator over variables 0 and 1 has been
\* conditioned on both: it is active at the fixed position (1, 0)
C26_Witness ==
    /\ steps = 0
    /\ ~ iterator.finished_i
    /\ iterator.vars_i = <<0, 1>>
    /\ iterator.fixed_i = <<TRUE, TRUE>>
    /\ iterator.subInd_i = <<1, 0>>
    /\ iterator.ind_i = 1

C28_FinishedReadsFail ==
    iterator.finished_i => validateRangeThrows(iterator)

\* a read of an iterator over variable 0 that has finished has failed
C28_Witness ==
    /\ raised
    /\ iterator.finished_i
    /\ iterator.vars_i = <<0>>
    /\ steps = 2

\* C29: incrementing a DomainIterator that is already finished fails with
\* an out-of-range error.
C29_FinishedIncrementFails ==
    [][(Increment /\ iterator.finished_i) => raised']_vars

\* C30: for every size list and every sub-index tuple within those sizes,
\* ind2sub(siz, sub2ind(siz, sub)) equals sub, and for every linear index
\* ind with 0 <= ind < product(siz), sub2ind(siz, ind2sub(siz, ind)) equals
\* ind.
C30_IndexRoundTrip ==
    /\ (/\ Len(index.sub) = Len(index.siz)
        /\ \A k \in 1..Len(index.siz) :
               0 <= index.sub[k] /\ index.sub[k] < index.siz[k])
           => /\ ~ sub2indThrows(index.siz, index.sub)
              /\ ~ ind2subThrows(index.siz, sub2ind(index.siz, index.sub))
              /\ ind2sub(index.siz, sub2ind(index.siz, index.sub)) = index.sub
    /\ (0 <= index.ind /\ index.ind < Product(index.siz))
           => /\ ~ ind2subThrows(index.siz, index.ind)
              /\ ~ sub2indThrows(index.siz, ind2sub(index.siz, index.ind))
              /\ sub2ind(index.siz, ind2sub(index.siz, index.ind)) = index.ind

\* linear index 7 of an array of sizes (2, 3, 2) has been converted
C30_Witness ==
    index = [siz |-> <<2, 3, 2>>, sub |-> <<1, 0, 1>>, ind |-> 7, threw |-> FALSE]

\* C31: sub2ind fails with OutOfRangeException whenever a sub-index is
\* negative or not less than its size, and ind2sub fails with
\* OutOfRangeException whenever the linear index is negative or not less than
\* the product of the sizes, the product of an empty size list being 1.
C31_OutOfRangeFails ==
    /\ (/\ Len(index.sub) = Len(index.siz)
        /\ \E k \in 1..Len(index.siz) :
               index.sub[k] < 0 \/ index.sub[k] >= index.siz[k])
           => sub2indThrows(index.siz, index.sub)
    /\ (index.ind < 0 \/ index.ind >= Product(index.siz))
           => ind2subThrows(index.siz, index.ind)

\* C32 as stated: after construction from any list of variable identifiers
\* and after every expand, condition and arithmetic operation (and in the
\* output function of a marginal), the domain list of a DiscreteFunction is
\* sorted ascending and duplicate-free and the length of its value array
\* (domainSize) equals the product of the domain sizes of its variables.
C32_DomainSortedAndSized ==
    LET shaped(g) ==
            /\ \A k \in 1..(noVars(g) - 1) : g.vars_i[k] < g.vars_i[k + 1]
            /\ domainSize(g)
                   = Product([k \in 1..noVars(g) |-> getDomainSize(g.vars_i[k])])
    IN shaped(function.f) /\ shaped(function.out)

\* C32 amended: the same after construction from any list, sorted or not,
\* that names no variable twice.
C32_DistinctListSortedAndSized ==
    Cardinality(Range(function.over)) = Len(function.over) =>
        LET shaped(g) ==
                /\ \A k \in 1..(noVars(g) - 1) : g.vars_i[k] < g.vars_i[k + 1]
                /\ domainSize(g)
                       = Product([k \in 1..noVars(g) |-> getDomainSize(g.vars_i[k])])
        IN shaped(function.f) /\ shaped(function.out)

\* a function constructed over the unsorted list (1, 0) has been multiplied
\* by a function of variable 2 and is now over (0, 1, 2) with eight values
C32_Witness ==
    /\ function.over = <<1, 0>>
    /\ function.last = "*="
    /\ ~ function.threw
    /\ function.before.vars_i = <<0, 1>>
    /\ function.f.vars_i = <<0, 1, 2>>
    /\ domainSize(function.f) = 8

\* C33: after expand(variables) the domain is the union of the old domain
\* and the given variables and, at every position of the new domain, the
\* value is the old value at the projection of that position onto the old
\* domain; when the given variables are all in the old domain already the
\* function is unchanged.  stride is the distance in the value array between
\* neighbouring values of a variable, digit the value a position gives it.
C33_ExpandKeepsValues ==
    (function.last = "expand" /\ ~ function.threw) =>
        LET old == function.before
            new == function.f
            stride(g, var) ==
                Product([k \in 1..Cardinality({v \in Range(g.vars_i) : v < var})
                            |-> getDomainSize(g.vars_i[k])])
            digit(g, ind, var) == (ind \div stride(g, var)) % getDomainSize(var)
            RECURSIVE projection(_, _)
            projection(ind, k) ==
                IF k > noVars(old) THEN 0
                ELSE digit(new, ind, old.vars_i[k]) * stride(old, old.vars_i[k])
                     + projection(ind, k + 1)
        IN /\ Range(new.vars_i) = Range(old.vars_i) \cup Range(function.vars)
           /\ new.vars_i = SortedSeq(Range(new.vars_i))
           /\ domainSize(new) = Product(sizesOf(new.vars_i))
           /\ \A ind \in 0..(domainSize(new) - 1) :
                  new.values_i[ind + 1] = old.values_i[projection(ind, 1) + 1]
           /\ Range(function.vars) \subseteq Range(old.vars_i) => new = old

\* a function of variable 1 with the values (1, 2) has been expanded by
\* variable 0, which comes first in the new domain: each old value is found
\* at both values of variable 0
C33_Witness ==
    /\ function.last = "expand"
    /\ function.before = Function(<<1>>, <<1, 2>>, 1)
    /\ function.vars = <<0>>
    /\ function.f = Function(<<0, 1>>, <<1, 1, 2, 2>>, 1)

\* C34: after maxMarginal(inFunc, outFunc) (respectively minMarginal) with
\* the domain of outFunc within that of inFunc, each position of outFunc
\* holds the maximum (respectively minimum) of inFunc over the positions of
\* inFunc consistent with it, the domains of both functions are unchanged,
\* and when the two domains are equal outFunc is a copy of inFunc.
C34_MarginalIsExtremeOverConsistent ==
    (function.last \in {"maxMarginal", "minMarginal"} /\ ~ function.threw) =>
        LET inFunc == function.f
            outFunc == function.out
            stride(g, var) ==
                Product([k \in 1..Cardinality({v \in Range(g.vars_i) : v < var})
                            |-> getDomainSize(g.vars_i[k])])
            digit(g, ind, var) == (ind \div stride(g, var)) % getDomainSize(var)
            agrees(inInd, outInd) ==
                \A var \in Range(outFunc.vars_i) :
                    digit(inFunc, inInd, var) = digit(outFunc, outInd, var)
            over(outInd) ==
                {inInd \in 0..(domainSize(inFunc) - 1) : agrees(inInd, outInd)}
            beats(x, y) ==
                IF function.last = "maxMarginal"
                THEN ~ ValLess(x, y) ELSE ~ ValLess(y, x)
        IN /\ inFunc = function.before
           /\ outFunc.vars_i = SortedSeq(Range(function.vars))
           /\ domainSize(outFunc) = Product(sizesOf(outFunc.vars_i))
           /\ \A outInd \in 0..(domainSize(outFunc) - 1) :
                  /\ \E inInd \in over(outInd) :
                         outFunc.values_i[outInd + 1] = inFunc.values_i[inInd + 1]
                  /\ \A inInd \in over(outInd) :
                         beats(outFunc.values_i[outInd + 1],
                               inFunc.values_i[inInd + 1])
           /\ sameDomain(inFunc, outFunc) => outFunc = inFunc

\* the function over variables 0 and 1 with the values (1, 2, 2, 1) has been
\* marginalised onto variable 1 with min: the minimum is 1 at both values
C34_Witness ==
    /\ function.last = "minMarginal"
    /\ function.f = Function(<<0, 1>>, <<1, 2, 2, 1>>, 1)
    /\ function.vars = <<1>>
    /\ function.out = Function(<<1>>, <<1, 1>>, 1)

\* C35: after f += g (and likewise -=, *= and /=) the domain of f is the
\* union of the two domains, the value of f at each position of the union
\* is the operator applied to the old value of f and the value of g at the
\* projections of that position onto their own domains, and g is unchanged
\* (g is passed by const reference; the model keeps it as function.rhs).
C35_ArithmeticIsElementwise ==
    (function.last \in {"+=", "-=", "*=", "/="} /\ ~ function.threw) =>
        LET old == function.before
            new == function.f
            g == function.rhs
            stride(h, var) ==
                Product([k \in 1..Cardinality({v \in Range(h.vars_i) : v < var})
                            |-> getDomainSize(h.vars_i[k])])
            digit(h, ind, var) == (ind \div stride(h, var)) % getDomainSize(var)
            RECURSIVE projection(_, _, _)
            projection(h, ind, k) ==
                IF k > noVars(h) THEN 0
                ELSE digit(new, ind, h.vars_i[k]) * stride(h, h.vars_i[k])
                     + projection(h, ind, k + 1)
            applied(x, y) ==
                CASE function.last = "+=" -> [n |-> x.n * y.d + y.n * x.d, d |-> x.d * y.d]
                  [] function.last = "-=" -> [n |-> x.n * y.d - y.n * x.d, d |-> x.d * y.d]
                  [] function.last = "*=" -> [n |-> x.n * y.n, d |-> x.d * y.d]
                  [] function.last = "/=" -> [n |-> x.n * y.d, d |-> x.d * y.n]
            same(x, y) == x.n * y.d = y.n * x.d
        IN /\ new.vars_i = SortedSeq(Range(old.vars_i) \cup Range(g.vars_i))
           /\ domainSize(new) = Product(sizesOf(new.vars_i))
           /\ \A ind \in 0..(domainSize(new) - 1) :
                  same(new.values_i[ind + 1],
                       applied(old.values_i[projection(old, ind, 1) + 1],
                               g.values_i[projection(g, ind, 1) + 1]))

\* the function of variable 1 with the values (1, 2) has been divided by the
\* function of variables 0 and 1 with the values (1/2, 1, 3/2, 2)
C35_Witness ==
    /\ function.last = "/="
    /\ function.before = Function(<<1>>, <<1, 2>>, 1)
    /\ function.rhs = Function(<<0, 1>>, <<1, 2, 3, 4>>, 2)
    /\ function.f = Function(<<0, 1>>, <<12, 6, 8, 6>>, 6)

\* C36: the count that each update pass contributes to the total of an
\* iteration of optimise() equals the number of messages the pass changed,
\* that is the number of outgoing messages recomputed in the pass that moved
\* by more than the threshold.  movedBy counts them for the sender of one
\* round, once the round has ended.
C36_CountIsChangedMessages ==
    (pc = "loop" /\ iterationCount < maxIterations_i) =>
        LET movedBy(po, s) ==
                Cardinality({r \in DOMAIN po.curOutboxes_i[s] :
                                changed(po.heap[po.curOutboxes_i[s][r]],
                                        po.heap[po.prevOutboxes_i[s][r]])})
            RECURSIVE fac2varMoved(_)
            fac2varMoved(c) ==
                IF ~ newMail(c.var2facMsgs_i) THEN 0
                ELSE LET round == fac2varRound(c)
                     IN IF round.threw THEN 0
                        ELSE movedBy(round.c.fac2varMsgs_i, front(c.var2facMsgs_i))
                             + fac2varMoved(round.c)
            RECURSIVE var2facMoved(_)
            var2facMoved(c) ==
                IF ~ newMail(c.fac2varMsgs_i) THEN 0
                ELSE LET round == var2facRound(c)
                     IN IF round.threw THEN 0
                        ELSE movedBy(round.c.var2facMsgs_i, front(c.fac2varMsgs_i))
                             + var2facMoved(round.c)
            fac2var == updateFac2VarMsgs(controller)
            var2fac == updateVar2FacMsgs(fac2var.c)
        IN ~ fac2var.threw =>
               /\ fac2var.count = fac2varMoved(controller)
               /\ ~ var2fac.threw => var2fac.count = var2facMoved(fac2var.c)


\* C37: after any sequence of notify, notifyAll and popNotice, noticeCount()
\* is the number of distinct receivers that have a notice pending.
C37_CountIsPendingReceivers ==
    noticeCount(post) = Cardinality(Range(post.notices_i))


\* C38: in every state of the controller reached through setFactor,
\* removeFactor, clear, notifyFactor and optimise, every notice pending in the
\* variable to factor PostOffice names a stored factor that has at least one
\* edge, and every notice pending in the factor to variable PostOffice names a
\* variable of the graph.
C38_NoticesNameGraphMembers ==
    /\ \A fac \in Range(controller.var2facMsgs_i.notices_i) :
           /\ fac \in DOMAIN controller.factors_i
           /\ \E var \in VarID : hasEdge(controller.fac2varMsgs_i, fac, var)
    /\ \A var \in Range(controller.fac2varMsgs_i.notices_i) :
           \E fac \in DOMAIN controller.factors_i :
               hasEdge(controller.fac2varMsgs_i, fac, var)


\* C39: when optimise() stopped because an iteration counted zero
\* notifications, both notice queues are empty when it returns, and an
\* optimise() that follows immediately changes no message and no variable
\* assignment.
\* optimise() stopped so when it left the loop after an iteration that counted
\* zero, which is the only way it returns before the iteration cap.
C39_ConvergedStaysConverged ==
    (/\ pc = "done"
     /\ iterationCount > 0
     /\ (iterationCount < maxIterations_i \/ 0 = numOfUpdates)) =>
        LET again == optimise(controller, maxIterations_i, 0)
            sameMsgs(po1, po2) ==
                \A e \in edgesOf(po1) \cup edgesOf(po2) :
                    /\ hasEdge(po1, e[1], e[2]) /\ hasEdge(po2, e[1], e[2])
                    /\ curOutMsg(po1, e[1], e[2]) = curOutMsg(po2, e[1], e[2])
                    /\ prevOutMsg(po1, e[1], e[2]) = prevOutMsg(po2, e[1], e[2])
            mirror(po) == {<<e[2], e[1]>> : e \in edgesOf(po)}
        IN /\ ~ newMail(controller.fac2varMsgs_i)
           /\ ~ newMail(controller.var2facMsgs_i)
           /\ ~ again.threw
           /\ again.c.actions_i = controller.actions_i
           /\ sameMsgs(again.c.fac2varMsgs_i, controller.fac2varMsgs_i)
           /\ \A e \in mirror(controller.fac2varMsgs_i) :
                  /\ curOutMsg(again.c.var2facMsgs_i, e[1], e[2])
                         = curOutMsg(controller.var2facMsgs_i, e[1], e[2])
                  /\ prevOutMsg(again.c.var2facMsgs_i, e[1], e[2])
                         = prevOutMsg(controller.var2facMsgs_i, e[1], e[2])

\* optimise() went round twice and stopped at an iteration without
\* notifications, on a graph where factor 1 is related to variable 0
C39_Witness ==
    /\ pc = "done"
    /\ iterationCount = 2
    /\ 0 = numOfUpdates
    /\ hasEdge(controller.fac2varMsgs_i, 1, 0)


\* C40: after any sequence of setFactor, removeFactor, clear and optimise the
\* two PostOffices hold mirrored edges: the factor to variable PostOffice has
\* the edge from factor f to variable v exactly when the variable to factor
\* PostOffice has the edge from v to f.
C40_EdgesAreMirrored ==
    \A f \in FactorID, v \in VarID :
        hasEdge(controller.fac2varMsgs_i, f, v)
            <=> hasEdge(controller.var2facMsgs_i, v, f)

\* optimise() has returned on a graph where factor 1 is related to variable 1
\* and not to variable 0, which factor 2 is related to
C40_Witness ==
    /\ pc = "done"
    /\ hasEdge(controller.fac2varMsgs_i, 1, 1)
    /\ hasEdge(controller.var2facMsgs_i, 1, 1)
    /\ ~ hasEdge(controller.fac2varMsgs_i, 1, 0)
    /\ ~ hasEdge(controller.var2facMsgs_i, 0, 1)
    /\ hasEdge(controller.fac2varMsgs_i, 2, 0)
    /\ hasEdge(controller.var2facMsgs_i, 0, 2)

=============================================================================
